---- MODULE Spec2Model ----
(***************************************************************************)
(* A model of the bifrost gateway (repository 0x5487/http-benchmark):      *)
(* the engine handler chain and its hot swap, the upstream load-balancing  *)
(* strategies, and Service.ServeHTTP with its proxy sub-task.              *)
(*                                                                         *)
(* Each subsystem has its own specification (SpecEngine, SpecRR, ...).     *)
(* A specification moves only the variables of its subsystem; the          *)
(* variables of the other subsystems keep their idle values.               *)
(***************************************************************************)
EXTENDS Integers, Sequences, FiniteSets, TLC

VARIABLES
    \* ---- engine and switcher
    engines,      \* every engine built so far, by engine id (position)
    current,      \* the switcher's pointer: id of the published engine
    req,          \* per request: the hertz RequestContext and its progress
    \* ---- round-robin upstream
    rrStrategy,   \* opts.Strategy of the upstream
    rrN,          \* len(u.proxies)
    rrCounter,    \* u.counter
    rrTimer,      \* the reset goroutine's timer: "none", "armed" or "fired"
    rrPc,         \* per calling goroutine: where it is in roundRobin
    rrIdx,        \* per calling goroutine: the value counter.Add(1) returned
    rrSel,        \* history: the targets returned, in order of return
    rrOverlap,    \* history: some call started while another was in progress
    \* ---- hashing upstream
    hsN,          \* len(u.proxies)
    hsHasher,     \* u.hasher: the running FNV-1a state, as <<high, low>> halves
    hsPc,         \* per calling goroutine: where it is in hasing
    hsKey,        \* per calling goroutine: the key it was called with
    hsLocal,      \* per calling goroutine: Write's local copy of the state
    hsRes,        \* history: <<key, target>> of every call that returned
    \* ---- weighted upstream
    wtWeights,    \* the configured target weights, in list order
    wtBuilt,      \* newUpstream returned an upstream (not an error)
    wtTotal,      \* u.totalWeight
    wtLast,       \* the last call of weighted: its draw and what it returned
    \* ---- service
    svc,          \* the Service: its proxy, upstream and dynamicUpstream
    upStrategy,   \* opts.Strategy of every upstream of svc.upstreams
    sreq,         \* per request: carrier, request context, handler, sub-task
    failed,       \* per proxy: the failures the health check added
    \* ---- proxy headers
    pxIn,         \* the inbound request, its peer address, transferTrailer
    pxOut,        \* the headers of the outbound request
    pxResp,       \* the response: the backend's headers, the client's, status
    pxPc,         \* where Proxy.ServeHTTP is
    \* ---- director / JoinURLPath
    juTarget,     \* the proxy's target
    juReq,        \* the request: host, path and query string of its URI
    juUris,       \* history: the URIs the director set, in order
    \* ---- strip_prefix / add_prefix
    pfPrefixes,   \* strip_prefix: its prefixes, in order
    pfAdd,        \* add_prefix: its prefix
    pfOrig,       \* history: the path the request came with
    pfPath,       \* the request path
    pfPc,         \* the handler of the chain that runs next
    \* ---- replace_path_regex
    rpRegex,      \* the compiled regex and its replacement
    rpOrig,       \* history: the path the request came with
    rpReq,        \* the request: path, Header.Get of X-Replaced-Path
                  \* (empty when not set), ctx request_path
    rpPc,         \* whether the middleware has run
    \* ---- Redis rate limiter
    rlLimit,      \* options.Limit
    rlKey,        \* the namespace's key in Redis: value and time to live
    rlNow,        \* the clock, in seconds
    rlCall,       \* per caller: position in Allow, clock read, result
    rlHist,       \* history: window number, calls made, scripts run, allowed
    \* ---- access log
    lgChan,       \* t.logChan: queued entries, and whether it is closed
    lgWriter,     \* the buffered writer and its file
    lgPc,         \* positions of the writer task and of Shutdown
    lgHist,       \* history: entries sent, those sent before Shutdown
    \* ---- zero-downtime upgrade
    zdListeners,  \* z.listeners
    zdState,      \* z.state
    zdCh,         \* stopWaitingCh and isShutdownCh: values buffered
    zdPc,         \* positions of WaitForUpgrade, the accept loop and Close;
                  \* the control socket
    zdChildren,   \* the child process started last: LISTENERS, ExtraFiles
    zdHist,       \* history: upgrade requests, failed starts, Close calls
    \* ---- Load
    ldEntries,    \* opts.Entries: id and bind of each server entry
    ldPc,         \* whether Load has run
    ldResult,     \* what Load returned: the error, the ids of the servers
    \* ---- Access-log template
    tpTemplate,   \* opts.Template: its words, each one a directive
    tpCtx,        \* the request: status code of the response, method
    tpPc,         \* whether Finish has built the line
    tpLine,       \* the line Finish has built, word by word
    \* ---- roundRobin on any counter value
    ixN,          \* len(u.proxies)
    ixCounter,    \* u.counter
    ixPc,         \* whether the call has been made
    ixProxy,      \* the proxy returned, or "panic"
    \* ---- newEngine on any entry options
    bdOpts,       \* tracing enabled, entryOpts.Middlewares
    bdPc,         \* whether newEngine has run
    bdResult,     \* what newEngine returned
    \* ---- DynamicService
    dyServices,   \* svc.services: the ids of the loaded services
    dyCalls       \* history: per call the context value, the service invoked

engVars == <<engines, current, req>>
rrVars == <<rrStrategy, rrN, rrCounter, rrTimer, rrPc, rrIdx, rrSel, rrOverlap>>

hsVars == <<hsN, hsHasher, hsPc, hsKey, hsLocal, hsRes>>

wtVars == <<wtWeights, wtBuilt, wtTotal, wtLast>>

svcVars == <<svc, upStrategy, sreq, failed>>

pxVars == <<pxIn, pxOut, pxResp, pxPc>>

juVars == <<juTarget, juReq, juUris>>

pfVars == <<pfPrefixes, pfAdd, pfOrig, pfPath, pfPc>>

rpVars == <<rpRegex, rpOrig, rpReq, rpPc>>

rlVars == <<rlLimit, rlKey, rlNow, rlCall, rlHist>>

lgVars == <<lgChan, lgWriter, lgPc, lgHist>>

zdVars == <<zdListeners, zdState, zdCh, zdPc, zdChildren, zdHist>>

ldVars == <<ldEntries, ldPc, ldResult>>

tpVars == <<tpTemplate, tpCtx, tpPc, tpLine>>

ixVars == <<ixN, ixCounter, ixPc, ixProxy>>

bdVars == <<bdOpts, bdPc, bdResult>>

dyVars == <<dyServices, dyCalls>>

vars == <<engVars, rrVars, hsVars, wtVars, svcVars, pxVars, juVars, pfVars, rpVars, rlVars, lgVars, zdVars, ldVars, tpVars, ixVars, bdVars, dyVars>>

NotEngine == <<rrVars, hsVars, wtVars, svcVars, pxVars, juVars, pfVars, rpVars, rlVars, lgVars, zdVars, ldVars, tpVars, ixVars, bdVars, dyVars>>
NotRR == <<engVars, hsVars, wtVars, svcVars, pxVars, juVars, pfVars, rpVars, rlVars, lgVars, zdVars, ldVars, tpVars, ixVars, bdVars, dyVars>>
NotHash == <<engVars, rrVars, wtVars, svcVars, pxVars, juVars, pfVars, rpVars, rlVars, lgVars, zdVars, ldVars, tpVars, ixVars, bdVars, dyVars>>
NotWeighted == <<engVars, rrVars, hsVars, svcVars, pxVars, juVars, pfVars, rpVars, rlVars, lgVars, zdVars, ldVars, tpVars, ixVars, bdVars, dyVars>>
NotService == <<engVars, rrVars, hsVars, wtVars, pxVars, juVars, pfVars, rpVars, rlVars, lgVars, zdVars, ldVars, tpVars, ixVars, bdVars, dyVars>>
NotProxy == <<engVars, rrVars, hsVars, wtVars, svcVars, juVars, pfVars, rpVars, rlVars, lgVars, zdVars, ldVars, tpVars, ixVars, bdVars, dyVars>>
NotJoin == <<engVars, rrVars, hsVars, wtVars, svcVars, pxVars, pfVars, rpVars, rlVars, lgVars, zdVars, ldVars, tpVars, ixVars, bdVars, dyVars>>
NotPrefix == <<engVars, rrVars, hsVars, wtVars, svcVars, pxVars, juVars, rpVars, rlVars, lgVars, zdVars, ldVars, tpVars, ixVars, bdVars, dyVars>>
NotReplace == <<engVars, rrVars, hsVars, wtVars, svcVars, pxVars, juVars, pfVars, rlVars, lgVars, zdVars, ldVars, tpVars, ixVars, bdVars, dyVars>>
NotLimiter == <<engVars, rrVars, hsVars, wtVars, svcVars, pxVars, juVars, pfVars, rpVars, lgVars, zdVars, ldVars, tpVars, ixVars, bdVars, dyVars>>
NotLog == <<engVars, rrVars, hsVars, wtVars, svcVars, pxVars, juVars, pfVars, rpVars, rlVars, zdVars, ldVars, tpVars, ixVars, bdVars, dyVars>>
NotZero == <<engVars, rrVars, hsVars, wtVars, svcVars, pxVars, juVars, pfVars, rpVars, rlVars, lgVars, ldVars, tpVars, ixVars, bdVars, dyVars>>
NotLoad == <<engVars, rrVars, hsVars, wtVars, svcVars, pxVars, juVars, pfVars, rpVars, rlVars, lgVars, zdVars, tpVars, ixVars, bdVars, dyVars>>
NotTemplate == <<engVars, rrVars, hsVars, wtVars, svcVars, pxVars, juVars, pfVars, rpVars, rlVars, lgVars, zdVars, ldVars, ixVars, bdVars, dyVars>>
NotIndex == <<engVars, rrVars, hsVars, wtVars, svcVars, pxVars, juVars, pfVars, rpVars, rlVars, lgVars, zdVars, ldVars, tpVars, bdVars, dyVars>>
NotBuild == <<engVars, rrVars, hsVars, wtVars, svcVars, pxVars, juVars, pfVars, rpVars, rlVars, lgVars, zdVars, ldVars, tpVars, ixVars, dyVars>>
NotDynamic == <<engVars, rrVars, hsVars, wtVars, svcVars, pxVars, juVars, pfVars, rpVars, rlVars, lgVars, zdVars, ldVars, tpVars, ixVars, bdVars>>

(***************************************************************************)
(* Bounds of the model.                                                    *)
(***************************************************************************)
MaxReqs == 2
MaxReloads == 1
MaxTargets == 3
MaxCalls == 6
MaxHashCalls == 3
MaxWeight == 3
\* Width of the machine word the model gives uint64 and int.
WordBits == 6
MaxInFlight == 1
MaxCallers == 2
MaxLimit == 2
MaxAllowCalls == 3
MaxNow == 2
MaxFinish == 3
LogBufferSize == 2
LogChanCap == 2
MaxListeners == 2
MaxUpgrades == 2
MaxCloses == 2
MaxEntries == 3
MaxDynamicCalls == 2
MaxMws == 2
MaxDirectives == 2
\* make(chan bool, 1)
ChanCap == 1

Range(s) == {s[i] : i \in DOMAIN s}

(***************************************************************************)
(* Engine (src/pkg/gateway/engine.go)                                      *)
(***************************************************************************)

\* "no handler": Engine.notFoundHandler is nil (engine.go:49).
NoHandler == [name |-> "nil", eng |-> 0]

\* ctx.Abort() sets the index to hertz's abort index (math.MaxInt8 / 2).
AbortIndex == 63

\* What a handler does with the chain when it runs: call ctx.Next and return,
\* return without calling Next, or call ctx.Abort and return.
HandlerKinds == {"Next", "Return", "Abort"}

\* The middlewares the configuration declares (bifrost.opts.Middlewares) and
\* the kinds the factory knows (bifrost.go init()).
LoadedMiddlewares == {"m1", "m2"}
MiddlewareFactoryKinds == {"strip_prefix", "add_prefix"}

\* engine := &Engine{handlers: make(...), notFoundHandler: nil}
EmptyEngine(id) ==
    [ID |-> id, handlers |-> <<>>, middlewares |-> <<>>,
     notFoundHandler |-> NoHandler]

\* Engine.Use: append to handlers; middlewares is handlers, plus the
\* not-found handler when there is one.
Use(e, mws) ==
    LET hs == e.handlers \o mws
    IN  [e EXCEPT !.handlers = hs,
                  !.middlewares = IF e.notFoundHandler # NoHandler
                                    THEN hs \o <<e.notFoundHandler>>
                                    ELSE hs]

\* The loop of newEngine over entryOpts.Middlewares: a reference by id must
\* be loaded, a kind must be non-empty and known to the factory.
RECURSIVE UseEntryMiddlewares(_, _, _)
UseEntryMiddlewares(e, opts, i) ==
    IF i > Len(opts) THEN [ok |-> TRUE, engine |-> e]
    ELSE LET m == opts[i] IN
         IF Len(m.Use) > 0
           THEN IF m.Use \notin LoadedMiddlewares
                  THEN [ok |-> FALSE, engine |-> e]
                  ELSE UseEntryMiddlewares(
                         Use(e, <<[name |-> m.Use, eng |-> e.ID]>>), opts, i + 1)
           ELSE IF Len(m.Type) = 0 \/ m.Type \notin MiddlewareFactoryKinds
                  THEN [ok |-> FALSE, engine |-> e]
                  ELSE UseEntryMiddlewares(
                         Use(e, <<[name |-> m.Type, eng |-> e.ID]>>), opts, i + 1)

\* newEngine with the router used before the entry's middlewares.
newEngineRouterFirst(id, tracing, entryMiddlewares) ==
    LET e0 == EmptyEngine(id)
        e1 == IF tracing THEN Use(e0, <<[name |-> "tracing", eng |-> id]>>) ELSE e0
        e2 == Use(e1, <<[name |-> "init", eng |-> id]>>)
        e3 == Use(e2, <<[name |-> "router", eng |-> id]>>)
        r  == UseEntryMiddlewares(e3, entryMiddlewares, 1)
    IN  IF r.ok
          THEN [ok |-> TRUE, engine |-> r.engine]
          ELSE [ok |-> FALSE, engine |-> e0]

\* newEngine: tracing middleware (if enabled), init middleware, the entry's
\* middlewares, the router.
newEngine(id, tracing, entryMiddlewares) ==
    LET e0 == EmptyEngine(id)
        e1 == IF tracing THEN Use(e0, <<[name |-> "tracing", eng |-> id]>>) ELSE e0
        e2 == Use(e1, <<[name |-> "init", eng |-> id]>>)
        r  == UseEntryMiddlewares(e2, entryMiddlewares, 1)
    IN  IF r.ok
          THEN [ok |-> TRUE, engine |-> Use(r.engine, <<[name |-> "router", eng |-> id]>>)]
          ELSE [ok |-> FALSE, engine |-> e0]

\* The entry configurations the model draws from: tracing flag and the
\* entry's middleware options; the last three are rejected by newEngine.
MwRef(id) == [Use |-> id, Type |-> ""]
MwKind(kind) == [Use |-> "", Type |-> kind]
EntryConfigs ==
    { [tracing |-> FALSE, mws |-> <<>>],
      [tracing |-> FALSE, mws |-> <<MwRef("m1")>>],
      [tracing |-> TRUE,  mws |-> <<MwKind("strip_prefix"), MwRef("missing")>>],
      [tracing |-> FALSE, mws |-> <<MwKind("")>>],
      [tracing |-> TRUE,  mws |-> <<MwKind("bogus")>>] }

Reqs == 1..MaxReqs

IdleReq ==
    [pc |-> "idle", engine |-> 0, epoch |-> 0, index |-> 0, handlers |-> <<>>,
     depth |-> 0, ran |-> <<>>, aborted |-> FALSE]

\* The handler list the chain walks: the one SetHandlers stored in the
\* request context (engine.go:112).
HandlersLive(r) == engines[current].middlewares
HandlersOf(r) == req[r].handlers

EngineInit ==
    /\ \E cfg \in EntryConfigs :
         LET r == newEngine(1, cfg.tracing, cfg.mws)
         IN  /\ r.ok
             /\ engines = <<r.engine>>
    /\ current = 1
    /\ req = [r \in Reqs |-> IdleReq]

EngineIdle ==
    /\ engines = <<newEngine(1, FALSE, <<>>).engine>>
    /\ current = 1
    /\ req = [r \in Reqs |-> IdleReq]

\* Reload: build a fresh engine from the new configuration and publish it
\* with one atomic store; a configuration newEngine rejects publishes nothing.
Reload ==
    /\ Len(engines) <= MaxReloads
    /\ \E cfg \in EntryConfigs :
         LET id == Len(engines) + 1
             r  == newEngine(id, cfg.tracing, cfg.mws)
         IN  IF r.ok
               THEN /\ engines' = Append(engines, r.engine)
                    /\ current' = id
               ELSE UNCHANGED <<engines, current>>
    /\ UNCHANGED <<req, NotEngine>>

\* switcher.ServeHTTP: load the engine pointer once, at entry.  Requests are
\* interchangeable, so they are numbered in the order in which they enter.
SwitcherServeHTTP(r) ==
    /\ req[r].pc = "idle"
    /\ \A q \in Reqs : q < r => req[q].pc # "idle"
    /\ req' = [req EXCEPT ![r].pc = "entered",
                          ![r].engine = current,
                          ![r].epoch = Len(engines)]
    /\ UNCHANGED <<engines, current, NotEngine>>

\* Engine.ServeHTTP up to the entry of ctx.Next: SetIndex(-1),
\* SetHandlers(e.middlewares), and Next's first index++.
EngineServeHTTPFromZero(r) ==
    /\ req[r].pc = "entered"
    /\ req' = [req EXCEPT ![r].pc = "running",
                          ![r].index = 0 + 1,
                          ![r].handlers = engines[req[r].engine].middlewares,
                          ![r].depth = 1]
    /\ UNCHANGED <<engines, current, NotEngine>>

EngineServeHTTPOfCurrent(r) ==
    /\ req[r].pc = "entered"
    /\ req' = [req EXCEPT ![r].pc = "running",
                          ![r].index = -1 + 1,
                          ![r].handlers = engines[current].middlewares,
                          ![r].depth = 1]
    /\ UNCHANGED <<engines, current, NotEngine>>

EngineServeHTTP(r) ==
    /\ req[r].pc = "entered"
    /\ req' = [req EXCEPT ![r].pc = "running",
                          ![r].index = -1 + 1,
                          ![r].handlers = engines[req[r].engine].middlewares,
                          ![r].depth = 1]
    /\ UNCHANGED <<engines, current, NotEngine>>

\* One turn of the loop of ctx.Next: while index < len(handlers) run
\* handlers[index], then index++.  The handler that runs either calls Next
\* itself (a nested loop, entered with index++), returns, or aborts.
RunHandler(r) ==
    /\ req[r].pc = "running"
    /\ req[r].index < Len(HandlersOf(r))
    /\ \E kind \in HandlerKinds :
         LET h == HandlersOf(r)[req[r].index + 1]
         IN  req' = [req EXCEPT
                 ![r].ran = Append(@, h),
                 ![r].aborted = @ \/ kind = "Abort",
                 ![r].depth = IF kind = "Next" THEN @ + 1 ELSE @,
                 ![r].index = IF kind = "Abort" THEN AbortIndex + 1 ELSE @ + 1]
    /\ UNCHANGED <<engines, current, NotEngine>>

\* The loop of ctx.Next ends: a nested Next returns into the handler that
\* called it, which returns, and the outer loop does its index++; the
\* outermost Next returns into Engine.ServeHTTP, which calls ctx.Abort().
NextReturns(r) ==
    /\ req[r].pc = "running"
    /\ req[r].index >= Len(HandlersOf(r))
    /\ req' = [req EXCEPT
            ![r].depth = @ - 1,
            ![r].index = IF req[r].depth > 1 THEN @ + 1 ELSE AbortIndex,
            ![r].pc = IF req[r].depth > 1 THEN "running" ELSE "done"]
    /\ UNCHANGED <<engines, current, NotEngine>>

EngineNext ==
    \/ Reload
    \/ \E r \in Reqs : SwitcherServeHTTP(r)
    \/ \E r \in Reqs : EngineServeHTTP(r)
    \/ \E r \in Reqs : RunHandler(r)
    \/ \E r \in Reqs : NextReturns(r)

(***************************************************************************)
(* Upstream: round-robin (src/pkg/gateway/bifrost.go)                      *)
(***************************************************************************)

TargetNames == <<"A", "B", "C", "D", "E">>

\* u.proxies of an upstream with n targets, in list order.
Proxies(n) == SubSeq(TargetNames, 1, n)

RRCallers == {"g1", "g2"}

RECURSIVE Pow2(_)
Pow2(n) == IF n = 0 THEN 1 ELSE 2 * Pow2(n - 1)

UintMod == Pow2(WordBits)

\* atomic.Uint64.Add(1): the new value, wrapping at the word.
UintAdd1(u) == (u + 1) % UintMod

\* int(u) of an unsigned word.
IntOf(u) == IF u >= UintMod \div 2 THEN u - UintMod ELSE u

\* Go's a % n (n > 0): the sign of the dividend.
GoMod(a, n) == IF a >= 0 THEN a % n ELSE -((-a) % n)

\* proxies[i] in Go: a panic when i is out of range.
ProxyAt(n, i) == IF i >= 0 /\ i < n THEN Proxies(n)[i + 1] ELSE "panic"

\* i - 1 on an int: the least int wraps to the greatest.
IntSub1(i) == IF i = -(UintMod \div 2) THEN (UintMod \div 2) - 1 ELSE i - 1

\* (int(index)-1) % len(u.proxies)
roundRobinIndexNoMinus(index, n) == GoMod(IntOf(index), n)
roundRobinIndex(index, n) == GoMod(IntSub1(IntOf(index)), n)

RRIdle ==
    /\ rrStrategy = "round_robin"
    /\ rrN = 1
    /\ rrCounter = 0
    /\ rrTimer = "armed"
    /\ rrPc = [c \in RRCallers |-> "idle"]
    /\ rrIdx = [c \in RRCallers |-> 0]
    /\ rrSel = <<>>
    /\ rrOverlap = FALSE

\* newUpstream: the counter starts at 0; the reset goroutine, with its one
\* timer, is started only when the strategy is spelled out as round-robin.
RRInit ==
    /\ rrStrategy \in {"round_robin", ""}
    /\ rrN \in 1..MaxTargets
    /\ rrCounter = 0
    /\ rrTimer = IF rrStrategy = "round_robin" THEN "armed" ELSE "none"
    /\ rrPc = [c \in RRCallers |-> "idle"]
    /\ rrIdx = [c \in RRCallers |-> 0]
    /\ rrSel = <<>>
    /\ rrOverlap = FALSE

RRCallsMade == Len(rrSel) + Cardinality({c \in RRCallers : rrPc[c] = "added"})

\* roundRobin, first half: with one proxy return it at once; otherwise
\* index := u.counter.Add(1).
RRAdd(c) ==
    /\ rrPc[c] = "idle"
    /\ RRCallsMade < MaxCalls
    /\ rrOverlap' = (rrOverlap \/ \E d \in RRCallers : rrPc[d] = "added")
    /\ IF rrN = 1
         THEN /\ rrSel' = Append(rrSel, Proxies(rrN)[1])
              /\ UNCHANGED <<rrCounter, rrPc, rrIdx>>
         ELSE /\ rrCounter' = UintAdd1(rrCounter)
              /\ rrIdx' = [rrIdx EXCEPT ![c] = UintAdd1(rrCounter)]
              /\ rrPc' = [rrPc EXCEPT ![c] = "added"]
              /\ UNCHANGED rrSel
    /\ UNCHANGED <<rrStrategy, rrN, rrTimer, NotRR>>

\* roundRobin, second half: return u.proxies[(int(index)-1) % len(u.proxies)].
RRPick(c) ==
    /\ rrPc[c] = "added"
    /\ rrSel' = Append(rrSel, ProxyAt(rrN, roundRobinIndex(rrIdx[c], rrN)))
    /\ rrPc' = [rrPc EXCEPT ![c] = "idle"]
    /\ UNCHANGED <<rrStrategy, rrN, rrCounter, rrTimer, rrIdx, rrOverlap, NotRR>>

\* The reset goroutine: when its timer fires, upstream.counter.Store(0).
\* The timer is a time.NewTimer that is never reset, so it fires once.
RRReset ==
    /\ rrTimer = "armed"
    /\ rrCounter' = 0
    /\ rrTimer' = "fired"
    /\ UNCHANGED <<rrStrategy, rrN, rrPc, rrIdx, rrSel, rrOverlap, NotRR>>

RRNext ==
    \/ \E c \in RRCallers : RRAdd(c)
    \/ \E c \in RRCallers : RRPick(c)
    \/ RRReset

\* A timer that is armed fires: the goroutine is then at its select.
RRFairness == WF_vars(RRReset)

(***************************************************************************)
(* Upstream: hashing (src/pkg/gateway/bifrost.go)                          *)
(***************************************************************************)

\* 32-bit words are kept as <<high, low>> 16-bit halves.
Half == 65536

RECURSIVE XorBits(_, _, _)
XorBits(a, b, bits) ==
    IF bits = 0 THEN 0
    ELSE (((a % 2) + (b % 2)) % 2) + 2 * XorBits(a \div 2, b \div 2, bits - 1)

\* hash ^= byte
Xor32Byte(h, byte) ==
    <<h[1], (h[2] \div 256) * 256 + XorBits(h[2] % 256, byte, 8)>>

\* The low part of the FNV prime 16777619 = 2^24 + 403.
FnvPrimeLow == 403

\* hash *= 16777619, modulo 2^32.
Mul32Prime(h) ==
    LET low  == h[2] * FnvPrimeLow
        high == h[1] * FnvPrimeLow + (low \div Half) + (h[2] % 256) * 256
    IN  <<high % Half, low % Half>>

\* The FNV-1a offset basis 2166136261 (fnv.New32a()).
FnvOffset32 == <<33052, 40389>>

\* sum32a.Write from state h: for each byte, xor then multiply.
RECURSIVE FnvWrite(_, _, _)
FnvWrite(h, data, i) ==
    IF i > Len(data) THEN h
    ELSE FnvWrite(Mul32Prime(Xor32Byte(h, data[i])), data, i + 1)

\* int(hashValue) % n, the int being 64 bits wide.
HashMod(h, n) == ((h[1] % n) * (Half % n) + (h[2] % n)) % n

\* The keys the model hashes, as bytes: "key1", "key2", "key3" and "".
HashKeys == { <<107, 101, 121, 49>>, <<107, 101, 121, 50>>,
              <<107, 101, 121, 51>>, <<>> }

HashCallers == {"g1", "g2"}

HashIdle ==
    /\ hsN = 1
    /\ hsHasher = FnvOffset32
    /\ hsPc = [c \in HashCallers |-> "idle"]
    /\ hsKey = [c \in HashCallers |-> <<>>]
    /\ hsLocal = [c \in HashCallers |-> FnvOffset32]
    /\ hsRes = <<>>

\* newUpstream: hasher: fnv.New32a().
HashInit ==
    /\ hsN \in 1..MaxTargets
    /\ hsHasher = FnvOffset32
    /\ hsPc = [c \in HashCallers |-> "idle"]
    /\ hsKey = [c \in HashCallers |-> <<>>]
    /\ hsLocal = [c \in HashCallers |-> FnvOffset32]
    /\ hsRes = <<>>

HashCallsMade == Len(hsRes) + Cardinality({c \in HashCallers : hsPc[c] # "idle"})

\* hasing(key): with one proxy return it at once; otherwise u.hasher.Write
\* starts by reading the hasher's state.
HashCall(c, key) ==
    /\ hsPc[c] = "idle"
    /\ HashCallsMade < MaxHashCalls
    /\ IF hsN = 1
         THEN /\ hsRes' = Append(hsRes, <<key, Proxies(hsN)[1]>>)
              /\ UNCHANGED <<hsPc, hsKey, hsLocal>>
         ELSE /\ hsPc' = [hsPc EXCEPT ![c] = "write"]
              /\ hsKey' = [hsKey EXCEPT ![c] = key]
              /\ hsLocal' = [hsLocal EXCEPT ![c] = hsHasher]
              /\ UNCHANGED hsRes
    /\ UNCHANGED <<hsN, hsHasher, NotHash>>

\* u.hasher.Write ends by storing the state it computed from its copy.
HashWrite(c) ==
    /\ hsPc[c] = "write"
    /\ hsHasher' = FnvWrite(hsLocal[c], hsKey[c], 1)
    /\ hsPc' = [hsPc EXCEPT ![c] = "sum"]
    /\ UNCHANGED <<hsN, hsKey, hsLocal, hsRes, NotHash>>

\* hashValue := u.hasher.Sum32(); return u.proxies[int(hashValue) % len].
HashSum(c) ==
    /\ hsPc[c] = "sum"
    /\ hsRes' = Append(hsRes, <<hsKey[c], ProxyAt(hsN, HashMod(hsHasher, hsN))>>)
    /\ hsPc' = [hsPc EXCEPT ![c] = "idle"]
    /\ UNCHANGED <<hsN, hsHasher, hsKey, hsLocal, NotHash>>

HashNext ==
    \/ \E c \in HashCallers, key \in HashKeys : HashCall(c, key)
    \/ \E c \in HashCallers : HashWrite(c)
    \/ \E c \in HashCallers : HashSum(c)

(***************************************************************************)
(* Upstream: weighted (src/pkg/gateway/bifrost.go)                         *)
(***************************************************************************)

\* The weights a target may be configured with: negative, zero, positive.
WeightValues == (-1)..MaxWeight

RECURSIVE SeqsUpTo(_, _)
SeqsUpTo(S, n) ==
    IF n = 0 THEN {<<>>}
    ELSE LET shorter == SeqsUpTo(S, n - 1)
         IN  shorter \cup {Append(q, x) : q \in {t \in shorter : Len(t) = n - 1}, x \in S}

RECURSIVE SumSeq(_, _)
SumSeq(ws, i) == IF i = 0 THEN 0 ELSE SumSeq(ws, i - 1) + ws[i]

\* newUpstream for a weighted upstream: an error for no target or for a
\* target of weight 0; totalWeight adds up every target's weight.
newUpstreamWeighted(ws) ==
    IF Len(ws) = 0 \/ \E i \in DOMAIN ws : ws[i] = 0
      THEN [ok |-> FALSE, totalWeight |-> 0]
      ELSE [ok |-> TRUE, totalWeight |-> SumSeq(ws, Len(ws))]

\* The loop of weighted: subtract the weights in list order and return the
\* proxy at which the rest drops below zero; nil when none does.
RECURSIVE weightedLoopLeq(_, _, _)
weightedLoopLeq(ws, randomWeight, i) ==
    IF i > Len(ws) THEN "nil"
    ELSE IF randomWeight - ws[i] <= 0 THEN Proxies(Len(ws))[i]
    ELSE weightedLoopLeq(ws, randomWeight - ws[i], i + 1)

RECURSIVE weightedLoop(_, _, _)
weightedLoop(ws, randomWeight, i) ==
    IF i > Len(ws) THEN "nil"
    ELSE IF randomWeight - ws[i] < 0 THEN Proxies(Len(ws))[i]
    ELSE weightedLoop(ws, randomWeight - ws[i], i + 1)

\* weighted, given what u.rng.Intn(u.totalWeight) drew.
weighted(ws, draw) ==
    IF Len(ws) = 1 THEN Proxies(1)[1] ELSE weightedLoop(ws, draw, 1)

WeightedIdle ==
    /\ wtWeights = <<1>>
    /\ wtBuilt = TRUE
    /\ wtTotal = 1
    /\ wtLast = <<>>

WeightedInit ==
    /\ wtWeights \in SeqsUpTo(WeightValues, MaxTargets)
    /\ wtBuilt = newUpstreamWeighted(wtWeights).ok
    /\ wtTotal = newUpstreamWeighted(wtWeights).totalWeight
    /\ wtLast = <<>>

\* A call of weighted: with one proxy no number is drawn; rng.Intn panics
\* when totalWeight is not positive.
WeightedCall ==
    /\ wtBuilt
    /\ IF Len(wtWeights) = 1
         THEN wtLast' = <<[drew |-> FALSE, draw |-> 0, proxy |-> weighted(wtWeights, 0)]>>
         ELSE IF wtTotal <= 0
           THEN wtLast' = <<[drew |-> FALSE, draw |-> 0, proxy |-> "panic"]>>
           ELSE \E draw \in 0..(wtTotal - 1) :
                  wtLast' = <<[drew |-> TRUE, draw |-> draw,
                               proxy |-> weighted(wtWeights, draw)]>>
    /\ UNCHANGED <<wtWeights, wtBuilt, wtTotal, NotWeighted>>

WeightedNext == WeightedCall

(***************************************************************************)
(* Service.ServeHTTP: the handler and the proxy sub-task it starts.        *)
(* The handler goroutine ("main") starts the sub-task, then waits in a     *)
(* select for the carrier's cancellation or the sub-task's signal on the   *)
(* unbuffered channel done.  The sub-task shares the request context with  *)
(* the handler, and the Service's upstream field with every request.       *)
(***************************************************************************)
Nil == "nil"
Unset == "<unset>"

SvcReqs == {"r1", "r2"}

\* svc.upstreams: the upstream ids known to the service, and their proxies.
UpstreamIds == {"up1", "up2"}
UpstreamProxies(u) == IF u = "up1" THEN {"p1", "p2"} ELSE {"p3"}
DirectProxy == "px"
AllProxies == {DirectProxy} \cup UNION {UpstreamProxies(u) : u \in UpstreamIds}

\* The strategies the switch of Service.ServeHTTP knows.
KnownStrategies == {"round_robin", "", "weighted", "random", "hashing"}

\* What the strategy call returns: one of the upstream's proxies (which
\* one is the subject of the strategies' own specifications).
StrategyPick(u) == UpstreamProxies(u)

\* opts.Strategy of the two upstreams.
StrategyConfigs ==
    { [up1 |-> "round_robin", up2 |-> "hashing"],
      [up1 |-> "", up2 |-> "random"],
      [up1 |-> "weighted", up2 |-> "bogus"] }

\* newService: a dynamic service (host begins with "$"), a service on an
\* existing upstream, or a direct proxy.
ServiceConfigs ==
    { [proxy |-> Nil, upstream |-> Nil, dynamicUpstream |-> "$backend"] }
    \cup { [proxy |-> Nil, upstream |-> u, dynamicUpstream |-> ""] : u \in UpstreamIds }
    \cup { [proxy |-> DirectProxy, upstream |-> Nil, dynamicUpstream |-> ""] }

\* The request-context variable the dynamic service reads: never set, set
\* to the empty string, to a known id, or to an id of no upstream.
SvcVarValues == {Unset, "", "up1", "up2", "nope"}

\* ctx.GetString: the empty string when the key was never set.
GetString(v) == IF v = Unset THEN "" ELSE v

\* The status of a response nobody wrote.
DefaultStatus == 200

\* How Proxy.ServeHTTP ends: a backend response (its status is copied into
\* the response), an error (the error handler answers 502), the error
\* "timeout" (target_timeout is set, then 502), or a panic.
ProxyOutcomes ==
    { [kind |-> "response", status |-> 200],
      [kind |-> "response", status |-> 500],
      [kind |-> "error", status |-> 502],
      [kind |-> "timeout", status |-> 502],
      [kind |-> "panic", status |-> 0] }

IdleSreq ==
    [ mPc |-> "idle",          \* the handler goroutine
      tPc |-> "none",          \* the sub-task
      cancelled |-> FALSE,     \* c.Done() is closed
      var |-> Unset,           \* ctx value under svc.dynamicUpstream
      status |-> DefaultStatus,\* ctx.Response status
      aborted |-> FALSE,       \* ctx.Abort was called
      upstreamVar |-> "",      \* ctx value under config.UPSTREAM
      upstreamStatus |-> 0,    \* ctx value under config.UPSTREAM_STATUS
      duration |-> FALSE,      \* config.UPSTREAM_DURATION is set
      canceledAt |-> FALSE,    \* config.CLIENT_CANCELED_AT is set
      targetTimeout |-> FALSE, \* ctx value under "target_timeout"
      proxy |-> Nil,           \* the sub-task's local proxy
      strategy |-> "",         \* the switch's operand, once evaluated
      panicking |-> FALSE,     \* the sub-task is unwinding a panic
      fwd |-> Nil,             \* history: the proxy the request was given to
      outcome |-> "none",      \* history: "no_proxy", or how proxy.ServeHTTP ended
      healthStatus |-> 0,      \* history: the status the health check read
      failedOn |-> Nil,        \* history: the proxy given AddFailedCount(1)
      retStatus |-> 0 ]        \* history: the status when ServeHTTP returned

ServiceIdle ==
    /\ svc = [proxy |-> DirectProxy, upstream |-> Nil, dynamicUpstream |-> ""]
    /\ upStrategy = [up1 |-> "round_robin", up2 |-> "hashing"]
    /\ sreq = [r \in SvcReqs |-> IdleSreq]
    /\ failed = [p \in AllProxies |-> 0]

ServiceInit ==
    /\ svc \in ServiceConfigs
    /\ upStrategy \in StrategyConfigs
    /\ sreq = [r \in SvcReqs |-> IdleSreq]
    /\ failed = [p \in AllProxies |-> 0]

\* Requests whose handler is executing.
InFlight == {r \in SvcReqs : sreq[r].mPc \notin {"idle", "done"}}

\* The carrier context is cancelled (the client went away).  A carrier that
\* was cancelled before the handler was entered behaves as one cancelled
\* right after entry; a cancellation after the select has chosen is read by
\* nobody.
SvcCancel(r) ==
    /\ sreq[r].mPc = "select"
    /\ ~sreq[r].cancelled
    /\ sreq' = [sreq EXCEPT ![r].cancelled = TRUE]
    /\ UNCHANGED <<svc, upStrategy, failed, NotService>>

\* Service.ServeHTTP up to the select: make the channel, start the
\* sub-task.
SvcEnter(r) ==
    /\ sreq[r].mPc = "idle"
    /\ Cardinality(InFlight) < MaxInFlight
    /\ r = "r2" => sreq["r1"].mPc # "idle"
    /\ \E v \in (IF svc.dynamicUpstream # "" THEN SvcVarValues ELSE {Unset}) :
          sreq' = [sreq EXCEPT ![r].mPc = "select", ![r].tPc = "start",
                               ![r].var = v]
    /\ UNCHANGED <<svc, upStrategy, failed, NotService>>

\* The sub-task's dynamic lookup.  It stores the result of the map lookup
\* in the Service's own upstream field, nil when the id is unknown.
TaskResolve(r) ==
    /\ sreq[r].tPc = "start"
    /\ IF svc.dynamicUpstream = ""
         THEN /\ sreq' = [sreq EXCEPT ![r].tPc = "check"]
              /\ UNCHANGED svc
         ELSE LET upstreamName == GetString(sreq[r].var)
                  found == upstreamName \in UpstreamIds
              IN  IF upstreamName = ""
                    THEN /\ sreq' = [sreq EXCEPT ![r].aborted = TRUE,
                                                 ![r].tPc = "send"]
                         /\ UNCHANGED svc
                    ELSE /\ svc' = [svc EXCEPT
                                      !.upstream = IF found THEN upstreamName ELSE Nil]
                         /\ sreq' = IF found
                                      THEN [sreq EXCEPT ![r].tPc = "check"]
                                      ELSE [sreq EXCEPT ![r].aborted = TRUE,
                                                        ![r].tPc = "send"]
    /\ UNCHANGED <<upStrategy, failed, NotService>>

\* proxy := svc.proxy; if svc.upstream != nil && proxy == nil
TaskCheck(r) ==
    /\ sreq[r].tPc = "check"
    /\ sreq' = [sreq EXCEPT
                  ![r].proxy = svc.proxy,
                  ![r].tPc = IF svc.upstream # Nil /\ svc.proxy = Nil
                               THEN "setvar" ELSE "haveproxy"]
    /\ UNCHANGED <<svc, upStrategy, failed, NotService>>

\* ctx.Set(config.UPSTREAM, svc.upstream.opts.ID): the field is read again,
\* and a nil read panics (the deferred function then sends on done first).
TaskSetVar(r) ==
    /\ sreq[r].tPc = "setvar"
    /\ sreq' = IF svc.upstream = Nil
                 THEN [sreq EXCEPT ![r].panicking = TRUE, ![r].tPc = "send"]
                 ELSE [sreq EXCEPT ![r].upstreamVar = svc.upstream,
                                   ![r].tPc = "strategy"]
    /\ UNCHANGED <<svc, upStrategy, failed, NotService>>

\* switch svc.upstream.opts.Strategy: the operand is evaluated once.
TaskStrategy(r) ==
    /\ sreq[r].tPc = "strategy"
    /\ sreq' = IF svc.upstream = Nil
                 THEN [sreq EXCEPT ![r].panicking = TRUE, ![r].tPc = "send"]
                 ELSE [sreq EXCEPT ![r].strategy = upStrategy[svc.upstream],
                                   ![r].tPc = "pick"]
    /\ UNCHANGED <<svc, upStrategy, failed, NotService>>

\* The case taken: a known strategy reads svc.upstream once more and asks
\* it for a proxy; no case matches an unknown strategy, proxy stays nil.
TaskPick(r) ==
    /\ sreq[r].tPc = "pick"
    /\ IF sreq[r].strategy \notin KnownStrategies
         THEN sreq' = [sreq EXCEPT ![r].tPc = "haveproxy"]
         ELSE IF svc.upstream = Nil
                THEN sreq' = [sreq EXCEPT ![r].panicking = TRUE,
                                          ![r].tPc = "send"]
                ELSE \E p \in StrategyPick(svc.upstream) :
                        sreq' = [sreq EXCEPT ![r].proxy = p,
                                             ![r].tPc = "haveproxy"]
    /\ UNCHANGED <<svc, upStrategy, failed, NotService>>

\* TaskNoProxy without its SetStatusCode(503).
TaskNoProxyNoStatus(r) ==
    /\ sreq[r].tPc = "haveproxy"
    /\ sreq[r].proxy = Nil
    /\ sreq' = [sreq EXCEPT ![r].outcome = "no_proxy", ![r].tPc = "send"]
    /\ UNCHANGED <<svc, upStrategy, failed, NotService>>

\* if proxy == nil: no live upstream, 503, return.
TaskNoProxy(r) ==
    /\ sreq[r].tPc = "haveproxy"
    /\ sreq[r].proxy = Nil
    /\ sreq' = [sreq EXCEPT ![r].status = 503, ![r].outcome = "no_proxy",
                            ![r].tPc = "send"]
    /\ UNCHANGED <<svc, upStrategy, failed, NotService>>

\* proxy.ServeHTTP(c, ctx) is called: the request goes to the backend.
TaskProxyStart(r) ==
    /\ sreq[r].tPc = "haveproxy"
    /\ sreq[r].proxy # Nil
    /\ sreq' = [sreq EXCEPT ![r].fwd = sreq[r].proxy, ![r].tPc = "inproxy"]
    /\ UNCHANGED <<svc, upStrategy, failed, NotService>>

\* proxy.ServeHTTP returns or panics.
TaskProxyEnd(r) ==
    /\ sreq[r].tPc = "inproxy"
    /\ \E o \in ProxyOutcomes :
          sreq' = IF o.kind = "panic"
                    THEN [sreq EXCEPT ![r].panicking = TRUE,
                                      ![r].outcome = o.kind,
                                      ![r].tPc = "send"]
                    ELSE [sreq EXCEPT
                            ![r].status = o.status,
                            ![r].outcome = o.kind,
                            ![r].targetTimeout = (o.kind = "timeout"),
                            ![r].tPc = "after"]
    /\ UNCHANGED <<svc, upStrategy, failed, NotService>>

\* TaskAfter without the translation of target_timeout to 504.
TaskAfterNo504(r) ==
    /\ sreq[r].tPc = "after"
    /\ sreq' = [sreq EXCEPT ![r].duration = TRUE,
                            ![r].upstreamStatus = sreq[r].status,
                            ![r].tPc = "health"]
    /\ UNCHANGED <<svc, upStrategy, failed, NotService>>

\* UPSTREAM_DURATION; 504 on target_timeout, else UPSTREAM_STATUS.
TaskAfter(r) ==
    /\ sreq[r].tPc = "after"
    /\ sreq' = IF sreq[r].targetTimeout
                 THEN [sreq EXCEPT ![r].duration = TRUE, ![r].status = 504,
                                   ![r].tPc = "health"]
                 ELSE [sreq EXCEPT ![r].duration = TRUE,
                                   ![r].upstreamStatus = sreq[r].status,
                                   ![r].tPc = "health"]
    /\ UNCHANGED <<svc, upStrategy, failed, NotService>>

\* The health check counting a failure only for a status above 500.
TaskHealthAbove500(r) ==
    /\ sreq[r].tPc = "health"
    /\ failed' = IF sreq[r].status > 500
                   THEN [failed EXCEPT ![sreq[r].proxy] = @ + 1]
                   ELSE failed
    /\ sreq' = [sreq EXCEPT ![r].tPc = "send",
                            ![r].healthStatus = sreq[r].status,
                            ![r].failedOn = IF sreq[r].status > 500
                                              THEN sreq[r].proxy ELSE Nil]
    /\ UNCHANGED <<svc, upStrategy, NotService>>

\* The health check: a status of 500 or more adds one failure to the proxy.
TaskHealth(r) ==
    /\ sreq[r].tPc = "health"
    /\ failed' = IF sreq[r].status >= 500
                   THEN [failed EXCEPT ![sreq[r].proxy] = @ + 1]
                   ELSE failed
    /\ sreq' = [sreq EXCEPT ![r].tPc = "send",
                            ![r].healthStatus = sreq[r].status,
                            ![r].failedOn = IF sreq[r].status >= 500
                                              THEN sreq[r].proxy ELSE Nil]
    /\ UNCHANGED <<svc, upStrategy, NotService>>

\* case <-done: the sub-task's deferred send meets the handler's receive
\* (the channel is unbuffered, the send waits for the receiver).
SvcOnDone(r) ==
    /\ sreq[r].mPc = "select"
    /\ sreq[r].tPc = "send"
    /\ sreq' = [sreq EXCEPT ![r].mPc = "ret", ![r].tPc = "recover"]
    /\ UNCHANGED <<svc, upStrategy, failed, NotService>>

\* case <-c.Done(): CLIENT_CANCELED_AT and status 499.  When both cases
\* are ready the select takes either.
SvcOnCancel(r) ==
    /\ sreq[r].mPc = "select"
    /\ sreq[r].cancelled
    /\ sreq' = [sreq EXCEPT ![r].canceledAt = TRUE, ![r].status = 499,
                            ![r].mPc = "ret"]
    /\ UNCHANGED <<svc, upStrategy, failed, NotService>>

\* ServeHTTP returns; its deferred ctx.Abort() runs.
SvcReturn(r) ==
    /\ sreq[r].mPc = "ret"
    /\ sreq' = [sreq EXCEPT ![r].aborted = TRUE,
                            ![r].retStatus = sreq[r].status,
                            ![r].mPc = "done"]
    /\ UNCHANGED <<svc, upStrategy, failed, NotService>>

\* After the send: recover, and ctx.Abort() if there was a panic.
TaskRecover(r) ==
    /\ sreq[r].tPc = "recover"
    /\ sreq' = [sreq EXCEPT ![r].aborted = (sreq[r].aborted \/ sreq[r].panicking),
                            ![r].panicking = FALSE,
                            ![r].tPc = "end"]
    /\ UNCHANGED <<svc, upStrategy, failed, NotService>>

ServiceNext ==
    \E r \in SvcReqs :
        \/ SvcEnter(r)
        \/ SvcCancel(r)
        \/ TaskResolve(r)
        \/ TaskCheck(r)
        \/ TaskSetVar(r)
        \/ TaskStrategy(r)
        \/ TaskPick(r)
        \/ TaskNoProxy(r)
        \/ TaskProxyStart(r)
        \/ TaskProxyEnd(r)
        \/ TaskAfter(r)
        \/ TaskHealth(r)
        \/ SvcOnDone(r)
        \/ SvcOnCancel(r)
        \/ SvcReturn(r)
        \/ TaskRecover(r)

\* The steps of request r that wait for nothing but the scheduler: those
\* of the sub-task, the select once a case is ready, and the return.
SvcStep(r) ==
    \/ TaskResolve(r) \/ TaskCheck(r) \/ TaskSetVar(r) \/ TaskStrategy(r)
    \/ TaskPick(r) \/ TaskNoProxy(r) \/ TaskProxyStart(r) \/ TaskProxyEnd(r)
    \/ TaskAfter(r) \/ TaskHealth(r) \/ TaskRecover(r)
    \/ SvcOnDone(r) \/ SvcOnCancel(r) \/ SvcReturn(r)

ServiceFairness == \A r \in SvcReqs : WF_vars(SvcStep(r))

(***************************************************************************)
(* Proxy.ServeHTTP: the headers of the outbound request and of the         *)
(* response.  A header map gives every header name its value, or Absent.   *)
(***************************************************************************)
Absent == "<absent>"

\* var hopHeaders, in the order of the source.
hopHeaders ==
    << "Connection", "Proxy-Connection", "Keep-Alive", "Proxy-Authenticate",
       "Proxy-Authorization", "Te", "Trailer", "Transfer-Encoding", "Upgrade" >>

HeaderNames == Range(hopHeaders) \cup {"X-Forwarded-For", "X-Custom"}

NoHeaders == [n \in HeaderNames |-> Absent]

\* strings.Split(v, ",") and TrimString on the Connection values of the
\* model; DelBytes takes the token in canonical form.
ConnectionTokens(v) ==
    CASE v = "close" -> {"Close"}
      [] v = "Upgrade" -> {"Upgrade"}
      [] v = "keep-alive, X-Custom" -> {"Keep-Alive", "X-Custom"}
      [] v = "Te, Trailer" -> {"Te", "Trailer"}
      [] OTHER -> {}

ConnectionValues == {"close", "Upgrade", "keep-alive, X-Custom", "Te, Trailer"}

\* removeRequestConnHeaders / removeResponseConnHeaders: delete the headers
\* the Connection header lists.
removeConnHeaders(h) ==
    LET listed == IF h["Connection"] = Absent
                    THEN {} ELSE ConnectionTokens(h["Connection"])
    IN  [n \in HeaderNames |-> IF n \in listed THEN Absent ELSE h[n]]

\* The loop over hopHeaders stopping one header short.
RECURSIVE delHopHeadersShort(_, _, _)
delHopHeadersShort(h, transferTrailer, i) ==
    IF i > Len(hopHeaders) - 1 THEN h
    ELSE IF transferTrailer /\ hopHeaders[i] = "Trailer"
           THEN delHopHeadersShort(h, transferTrailer, i + 1)
           ELSE delHopHeadersShort([h EXCEPT ![hopHeaders[i]] = Absent],
                                   transferTrailer, i + 1)

\* for _, h := range hopHeaders: skip Trailer when transferTrailer, else
\* delete the header.
RECURSIVE delHopHeaders(_, _, _)
delHopHeaders(h, transferTrailer, i) ==
    IF i > Len(hopHeaders) THEN h
    ELSE IF transferTrailer /\ hopHeaders[i] = "Trailer"
           THEN delHopHeaders(h, transferTrailer, i + 1)
           ELSE delHopHeaders([h EXCEPT ![hopHeaders[i]] = Absent],
                              transferTrailer, i + 1)

\* checkTeHeader: some Te value contains "trailers".
TeValues == {"trailers", "gzip", "gzip, trailers"}
checkTeHeader(h) == h["Te"] \in {"trailers", "gzip, trailers"}

\* upgradeReqType: the inbound's Upgrade type, "" when it carries none.
UpgradeValues == {"websocket", "bad\\x01"}
upgradeReqType(h) == IF h["Upgrade"] = Absent THEN "" ELSE h["Upgrade"]
IsASCIIPrint(s) == s # "bad\\x01"

\* net.SplitHostPort(ctx.RemoteAddr().String()): the peer IP, or an error.
RemoteAddrs == { [ok |-> TRUE, ip |-> "X"], [ok |-> FALSE, ip |-> ""] }

\* The X-Forwarded-For block: tmp is nil for an absent header; a header
\* present with an empty value is left as it is.
setForwardedFor(h, remote) ==
    IF ~remote.ok THEN h
    ELSE LET tmp == h["X-Forwarded-For"]
             ip == IF tmp # Absent /\ Len(tmp) > 0
                     THEN tmp \o ", " \o remote.ip ELSE remote.ip
         IN  IF tmp = Absent \/ tmp # ""
               THEN [h EXCEPT !["X-Forwarded-For"] = ip]
               ELSE h

\* The outbound request headers Proxy.ServeHTTP builds from the inbound's.
outboundHeaders(h, transferTrailer, remote) ==
    LET hasTeTrailer == transferTrailer /\ checkTeHeader(h)
        reqUpType == upgradeReqType(h)
        h1 == delHopHeaders(removeConnHeaders(h), transferTrailer, 1)
        h2 == IF transferTrailer /\ hasTeTrailer
                THEN [h1 EXCEPT !["Te"] = "trailers"] ELSE h1
        h3 == setForwardedFor(h2, remote)
    IN  IF reqUpType # ""
          THEN [h3 EXCEPT !["Connection"] = "Upgrade", !["Upgrade"] = reqUpType]
          ELSE h3

\* The response headers after the client returned: Connection-listed and
\* hop-by-hop headers removed.
responseHeaders(h, transferTrailer) ==
    delHopHeaders(removeConnHeaders(h), transferTrailer, 1)

\* The hop-by-hop headers the model gives no particular value.
PlainHop ==
    {"Proxy-Connection", "Keep-Alive", "Proxy-Authenticate",
     "Proxy-Authorization", "Trailer", "Transfer-Encoding"}

\* Sets of present headers: none, each one alone, or all of a set.
PresenceFamily(S) == {{}} \cup {{n} : n \in S} \cup {S}

\* The header maps of the inbound requests of the model.
InboundHeaders ==
    { [n \in HeaderNames |->
         CASE n = "Connection" -> c
           [] n = "Te" -> te
           [] n = "Upgrade" -> up
           [] n = "X-Custom" -> xc
           [] n = "X-Forwarded-For" -> xff
           [] OTHER -> IF n \in plain THEN "1" ELSE Absent] :
      c \in {Absent} \cup ConnectionValues,
      te \in {Absent} \cup TeValues,
      up \in {Absent} \cup UpgradeValues,
      xc \in {Absent, "1"},
      xff \in {Absent, "", "A, B"},
      plain \in PresenceFamily(PlainHop) }

\* The header maps of the backend responses of the model (with the saved
\* response headers added back), before any stripping.
BackendHeaders ==
    { [n \in HeaderNames |->
         CASE n = "Connection" -> c
           [] n = "X-Custom" -> xc
           [] n = "X-Forwarded-For" -> Absent
           [] OTHER -> IF n \in hop THEN "1" ELSE Absent] :
      c \in {Absent, "close", "keep-alive, X-Custom"},
      xc \in {Absent, "1"},
      hop \in PresenceFamily(Range(hopHeaders) \ {"Connection"}) }

NoResponse == [answered |-> FALSE, raw |-> NoHeaders, headers |-> NoHeaders,
               status |-> DefaultStatus]

ProxyIdle ==
    /\ pxIn = [headers |-> NoHeaders, remote |-> [ok |-> FALSE, ip |-> ""],
               transferTrailer |-> FALSE]
    /\ pxOut = NoHeaders
    /\ pxResp = NoResponse
    /\ pxPc = "start"

ProxyInit ==
    /\ pxIn \in [headers : InboundHeaders, remote : RemoteAddrs,
                  transferTrailer : BOOLEAN]
    /\ pxOut = NoHeaders
    /\ pxResp = NoResponse
    /\ pxPc = "start"

\* Proxy.ServeHTTP up to the client call: a reqUpType that is not printable
\* calls the error handler (502) and goes on; then the outbound request
\* is built and sent, through roundTrip when reqUpType is not empty.
ProxySend ==
    /\ pxPc = "start"
    /\ pxOut' = outboundHeaders(pxIn.headers, pxIn.transferTrailer, pxIn.remote)
    /\ pxResp' = IF IsASCIIPrint(upgradeReqType(pxIn.headers))
                   THEN pxResp ELSE [pxResp EXCEPT !.status = 502]
    /\ pxPc' = IF upgradeReqType(pxIn.headers) # "" THEN "roundTrip" ELSE "do"
    /\ UNCHANGED <<pxIn, NotProxy>>

\* p.roundTrip returns: with an error the error handler answers 502.
ProxyRoundTripReturns ==
    /\ pxPc = "roundTrip"
    /\ \E failedTrip \in BOOLEAN :
          pxResp' = IF failedTrip THEN [pxResp EXCEPT !.status = 502] ELSE pxResp
    /\ pxPc' = "done"
    /\ UNCHANGED <<pxIn, pxOut, NotProxy>>

\* client.Do returns an error: the error handler answers 502.
ProxyDoFails ==
    /\ pxPc = "do"
    /\ pxResp' = [pxResp EXCEPT !.status = 502]
    /\ pxPc' = "done"
    /\ UNCHANGED <<pxIn, pxOut, NotProxy>>

\* client.Do returns the backend's response: the saved headers are added
\* back, then the Connection-listed and the hop-by-hop headers are removed.
ProxyDoReturns ==
    /\ pxPc = "do"
    /\ \E raw \in BackendHeaders, st \in {200, 500} :
          pxResp' = [answered |-> TRUE, raw |-> raw,
                     headers |-> responseHeaders(raw, pxIn.transferTrailer),
                     status |-> st]
    /\ pxPc' = "done"
    /\ UNCHANGED <<pxIn, pxOut, NotProxy>>

ProxyNext ==
    \/ ProxySend
    \/ ProxyRoundTripReturns
    \/ ProxyDoFails
    \/ ProxyDoReturns

(***************************************************************************)
(* JoinURLPath and the director of newReverseProxy.  Strings are           *)
(* sequences of characters.                                                *)
(***************************************************************************)
HasPrefix(s, p) == Len(s) >= Len(p) /\ SubSeq(s, 1, Len(p)) = p
HasSuffix(s, p) == Len(s) >= Len(p) /\ SubSeq(s, Len(s) - Len(p) + 1, Len(s)) = p

\* The first position of character ch in s at or after position from, or 0.
IndexFrom(s, ch, from) ==
    LET hits == {i \in from..Len(s) : s[i] = ch}
    IN  IF hits = {} THEN 0 ELSE CHOOSE i \in hits : \A j \in hits : i <= j

\* strings.Split(target, "?"): the parts around every "?".
RECURSIVE SplitQuery(_)
SplitQuery(s) ==
    LET i == IndexFrom(s, "?", 1)
    IN  IF i = 0 THEN <<s>>
        ELSE <<SubSeq(s, 1, i - 1)>> \o SplitQuery(SubSeq(s, i + 1, Len(s)))

\* Remove repeated slashes (the canonical form of a path).
RECURSIVE CanonSlashes(_)
CanonSlashes(s) ==
    IF Len(s) < 2 THEN s
    ELSE IF s[1] = "/" /\ s[2] = "/" THEN CanonSlashes(Tail(s))
    ELSE <<s[1]>> \o CanonSlashes(Tail(s))

SchemeHttp == <<"h", "t", "t", "p">>
SchemeSep == <<":", "/", "/">>

\* req.SetRequestURI(uri) followed by req.URI(): host, path and query string
\* of the URI.  A URI with no scheme is all path (and query).
ParseURI(host, uri) ==
    LET abs == HasPrefix(uri, SchemeHttp \o SchemeSep)
        rest == IF abs THEN SubSeq(uri, Len(SchemeHttp \o SchemeSep) + 1, Len(uri))
                ELSE uri
        q == IndexFrom(rest, "?", 1)
        beforeQ == IF q = 0 THEN rest ELSE SubSeq(rest, 1, q - 1)
        query == IF q = 0 THEN <<>> ELSE SubSeq(rest, q + 1, Len(rest))
        sl == IndexFrom(beforeQ, "/", 1)
        hostPart == IF ~abs THEN host
                    ELSE IF sl = 0 THEN beforeQ ELSE SubSeq(beforeQ, 1, sl - 1)
        rawPath == IF ~abs THEN beforeQ
                   ELSE IF sl = 0 THEN <<>> ELSE SubSeq(beforeQ, sl, Len(beforeQ))
        path == IF rawPath = <<>> \/ rawPath[1] # "/"
                  THEN <<"/">> \o rawPath ELSE rawPath
    IN  [host |-> hostPart, path |-> CanonSlashes(path), query |-> query]

\* JoinURLPath whose default case drops the path's first character.
JoinURLPathDropSlash(rq, target) ==
    LET aslash == rq.path[1] = "/"
        bslash == HasSuffix(target, <<"/">>)
        targetQuery == SplitQuery(target)
        joined == targetQuery[1] \o
                  (CASE aslash /\ bslash -> Tail(rq.path)
                     [] ~aslash /\ ~bslash -> <<"/">> \o rq.path
                     [] OTHER -> Tail(rq.path))
        withTargetQuery == IF Len(targetQuery) > 1
                             THEN joined \o <<"?">> \o targetQuery[2] ELSE joined
    IN  IF Len(rq.query) > 0
          THEN withTargetQuery
               \o (IF Len(targetQuery) = 1 THEN <<"?">> ELSE <<"&">>) \o rq.query
          ELSE withTargetQuery

\* JoinURLPath(rq, target).
JoinURLPath(rq, target) ==
    LET aslash == rq.path[1] = "/"
        abs == HasPrefix(target, SchemeHttp)
        tgt == IF abs THEN target
               ELSE IF HasPrefix(target, <<"/">>) THEN rq.host \o target
               ELSE rq.host \o <<"/">> \o target
        bslash == HasSuffix(tgt, <<"/">>)
        targetQuery == SplitQuery(tgt)
        joined == targetQuery[1] \o
                  (CASE aslash /\ bslash -> Tail(rq.path)
                     [] ~aslash /\ ~bslash -> <<"/">> \o rq.path
                     [] OTHER -> rq.path)
        withTargetQuery == IF Len(targetQuery) > 1
                             THEN joined \o <<"?">> \o targetQuery[2] ELSE joined
    IN  IF Len(rq.query) > 0
          THEN withTargetQuery
               \o (IF Len(targetQuery) = 1 THEN <<"?">> ELSE <<"&">>) \o rq.query
          ELSE withTargetQuery

\* The targets, request paths and query strings of the model.
HostH == SchemeHttp \o SchemeSep \o <<"h">>
JoinTargets ==
    { HostH, HostH \o <<"/">>,
      HostH \o <<"/", "b">>, HostH \o <<"/", "b", "/">>,
      HostH \o <<"?", "x">>, HostH \o <<"/", "?", "x">>,
      HostH \o <<"/", "b", "?", "x">> }
JoinPaths == { <<"/">>, <<"/", "d">>, <<"/", "d", "/">>, <<"/", "b", "/", "d">> }
JoinQueries == { <<>>, <<"q">> }

\* How many times the director is applied to one request.
MaxJoins == 2

JoinIdle ==
    /\ juTarget = HostH
    /\ juReq = [host |-> <<"h">>, path |-> <<"/">>, query |-> <<>>]
    /\ juUris = <<>>

JoinInit ==
    /\ juTarget \in JoinTargets
    /\ juReq \in [host : {<<"h">>}, path : JoinPaths, query : JoinQueries]
    /\ juUris = <<>>

\* The director: req.SetRequestURI(JoinURLPath(req, target)).
Director ==
    /\ Len(juUris) < MaxJoins
    /\ LET uri == JoinURLPath(juReq, juTarget)
       IN  /\ juUris' = Append(juUris, uri)
           /\ juReq' = ParseURI(juReq.host, uri)
    /\ UNCHANGED <<juTarget, NotJoin>>

JoinNext == Director

(***************************************************************************)
(* The path middlewares strip_prefix and add_prefix.                       *)
(***************************************************************************)
\* URI.SetPathBytes: the path is stored in normal form, with a leading
\* slash and without repeated slashes.
SetPathBytes(path) ==
    CanonSlashes(IF path = <<>> \/ path[1] # "/" THEN <<"/">> \o path ELSE path)

\* bytes.TrimPrefix
TrimPrefix(s, prefix) ==
    IF HasPrefix(s, prefix) THEN SubSeq(s, Len(prefix) + 1, Len(s)) ELSE s

\* The loop of StripPrefixMiddleware.ServeHTTP: the first prefix the path
\* starts with is trimmed, and the loop ends.
RECURSIVE StripPrefix(_, _, _)
StripPrefix(path, prefixes, i) ==
    IF i > Len(prefixes) THEN path
    ELSE IF HasPrefix(path, prefixes[i])
           THEN SetPathBytes(TrimPrefix(path, prefixes[i]))
           ELSE StripPrefix(path, prefixes, i + 1)

\* add_prefix: the prefix is put before the path.
AddPrefix(path, prefix) == SetPathBytes(prefix \o path)

PfxApi == <<"/", "a", "p", "i">>
PfxApiSlash == <<"/", "a", "p", "i", "/">>
PfxA == <<"/", "a">>
PrefixLists == { <<>>, <<PfxApi>>, <<PfxApiSlash>>, <<PfxA>>, <<PfxA, PfxApi>> }
PrefixPaths ==
    { <<"/", "a", "p", "i">>,
      <<"/", "a", "p", "i", "/">>,
      <<"/", "a", "p", "i", "/", "u">>,
      <<"/", "a", "p", "i", "u">>,
      <<"/", "a", "p", "i", "/", "a", "p", "i", "/", "u">>,
      <<"/", "u">>,
      <<"/", "a", "/", "a", "p", "i">> }

PrefixIdle ==
    /\ pfPrefixes = <<>>
    /\ pfAdd = PfxApi
    /\ pfOrig = <<"/">>
    /\ pfPath = <<"/">>
    /\ pfPc = "strip"

PrefixInit ==
    /\ pfPrefixes \in PrefixLists
    /\ pfAdd \in {PfxApi, PfxApiSlash, PfxA}
    /\ pfOrig \in PrefixPaths
    /\ pfPath = pfOrig
    /\ pfPc = "strip"

\* StripPrefixMiddleware.ServeHTTP: strip, then ctx.Next.
StripPrefixServeHTTP ==
    /\ pfPc = "strip"
    /\ pfPath' = StripPrefix(pfPath, pfPrefixes, 1)
    /\ pfPc' = "add"
    /\ UNCHANGED <<pfPrefixes, pfAdd, pfOrig, NotPrefix>>

\* The next handler of the chain, add_prefix: prepend, then ctx.Next.
AddPrefixServeHTTP ==
    /\ pfPc = "add"
    /\ pfPath' = AddPrefix(pfPath, pfAdd)
    /\ pfPc' = "next"
    /\ UNCHANGED <<pfPrefixes, pfAdd, pfOrig, NotPrefix>>

PrefixNext == StripPrefixServeHTTP \/ AddPrefixServeHTTP

(***************************************************************************)
(* The middleware replace_path_regex.  A regex that anchors S at the start *)
(* and captures K and the rest of the path, with a replacement of P and    *)
(* the captured group, is the record [strip |-> S, keep |-> K, put |-> P]. *)
(***************************************************************************)
RegexCases ==
    { [strip |-> <<"/", "a", "p", "i">>, keep |-> <<"/", "v", "1">>, put |-> <<>>],
      [strip |-> <<"/", "a", "p", "i">>, keep |-> <<"/", "v", "2">>, put |-> <<>>],
      [strip |-> <<"/", "a", "p", "i", "/", "v", "1", "/">>, keep |-> <<>>, put |-> <<"/", "h", "o", "o", "/">>],
      [strip |-> <<"/">>, keep |-> <<>>, put |-> <<"/", "x", "/">>] }

ReplacePaths ==
    { <<"/", "a", "p", "i", "/", "v", "1", "/", "u", "s", "e", "r", "s">>,
      <<"/", "v", "1", "/", "u", "s", "e", "r", "s">>,
      <<"/", "a", "p", "i", "/", "v", "1">>,
      <<"/", "a", "p", "i", "/", "v", "2", "/", "u", "s", "e", "r", "s">>,
      <<"/", "a", "p", "i">>,
      <<"/">>,
      <<"/", "a", "p", "i", "/", "v", "1", "/">>,
      <<"/", "h", "o", "o", "/", "u", "s", "e", "r", "s">>,
      <<"/", "a", "p", "i", "/", "v", "3">>,
      <<"/", "u", "s", "e", "r", "s">>,
      <<"/", "a", "p", "i", "/", "v", "2">>,
      <<"/", "x">>,
      <<"/", "a", "p", "i", "/", "v", "1", "0">> }

\* regexp.Match: the path starts with S followed by K.
RegexMatches(re, path) == HasPrefix(path, re.strip \o re.keep)

\* regexp.ReplaceAll: a path that matches becomes P followed by what the
\* group captured (the path from K on); any other path is returned as is.
RegexReplaceAll(re, path) ==
    IF RegexMatches(re, path)
      THEN re.put \o SubSeq(path, Len(re.strip) + 1, Len(path))
      ELSE path

ReplaceIdle ==
    /\ rpRegex = [strip |-> <<"/">>, keep |-> <<>>, put |-> <<"/">>]
    /\ rpOrig = <<"/">>
    /\ rpReq = [path |-> <<"/">>, header |-> <<>>, requestPath |-> Absent]
    /\ rpPc = "start"

ReplaceInit ==
    /\ rpRegex \in RegexCases
    /\ rpOrig \in ReplacePaths
    /\ rpReq = [path |-> rpOrig, header |-> <<>>, requestPath |-> Absent]
    /\ rpPc = "start"

\* The middleware setting X-Replaced-Path only when the regex matches.
ReplacePathRegexOnlyOnMatch(re, rq) ==
    [ path |-> SetPathBytes(RegexReplaceAll(re, rq.path)),
      header |-> IF RegexMatches(re, rq.path) THEN rq.path ELSE rq.header,
      requestPath |-> rq.path ]

\* The middleware: the original path goes to the context (request_path)
\* and to the header X-Replaced-Path, the path is replaced by the regex.
ReplacePathRegex(re, rq) ==
    [ path |-> SetPathBytes(RegexReplaceAll(re, rq.path)),
      header |-> rq.path,
      requestPath |-> rq.path ]

\* middleware.ServeHTTP(c, ctx)
ReplaceServeHTTP ==
    /\ rpPc = "start"
    /\ rpReq' = ReplacePathRegex(rpRegex, rpReq)
    /\ rpPc' = "done"
    /\ UNCHANGED <<rpRegex, rpOrig, NotReplace>>

ReplaceNext == ReplaceServeHTTP

(***************************************************************************)
(* The Redis rate limiter.  One namespace; the key lives in Redis with a   *)
(* value and a time to live in seconds, or is absent.  Time is counted in  *)
(* seconds; a window is the lifetime of the key.                           *)
(***************************************************************************)
Callers == 1..MaxCallers

Limits == 0..MaxLimit

\* int(l.options.WindowSize.Seconds())
WindowSeconds == 2

NoKey == [value |-> 0, ttl |-> -2]

NoResult ==
    [err |-> FALSE, allow |-> FALSE, limit |-> 0, remaining |-> 0,
     resetTime |-> 0, current |-> 0, window |-> 0]

\* The Lua script, run atomically by Redis: the key after it and the reply.
luaScript(key, tokens, limit, window, now) ==
    LET cur == (IF key = NoKey THEN 0 ELSE key.value) + tokens
        ttl0 == IF key = NoKey THEN -1 ELSE key.ttl
        ttl == IF ttl0 = -1 THEN window ELSE ttl0
        remaining == limit - cur
    IN  [ key |-> [value |-> cur, ttl |-> ttl],
          reply |-> << cur, limit,
                       IF remaining < 0 THEN 0 ELSE remaining,
                       now + ttl * 1000 >> ]

\* Allow with current < limit in place of current <= limit.
AllowResultStrict(reply, w) ==
    [ err |-> FALSE,
      allow |-> reply[1] < reply[2],
      limit |-> reply[2],
      remaining |-> reply[3],
      resetTime |-> reply[4],
      current |-> reply[1],
      window |-> w ]

\* Allow, no error: the reply's four numbers become the AllowResult
\* (current and window are kept for the record only).
AllowResult(reply, w) ==
    [ err |-> FALSE,
      allow |-> reply[1] <= reply[2],
      limit |-> reply[2],
      remaining |-> reply[3],
      resetTime |-> reply[4],
      current |-> reply[1],
      window |-> w ]

\* The error branch answering with no quota left.
FailOpenNoQuota(limit, now, w) ==
    [ err |-> TRUE, allow |-> TRUE, limit |-> limit, remaining |-> 0,
      resetTime |-> now + WindowSeconds * 1000, current |-> 0, window |-> w ]

\* Allow, err != nil.
FailOpen(limit, now, w) ==
    [ err |-> TRUE, allow |-> TRUE, limit |-> limit, remaining |-> limit,
      resetTime |-> now + WindowSeconds * 1000, current |-> 0, window |-> w ]

IdleCall == [pc |-> "idle", t |-> 0, res |-> NoResult]

LimiterIdle ==
    /\ rlLimit = 0
    /\ rlKey = NoKey
    /\ rlNow = 0
    /\ rlCall = [c \in Callers |-> IdleCall]
    /\ rlHist = [window |-> 1, calls |-> 0, allowed |-> 0, evals |-> 0]

LimiterInit ==
    /\ rlLimit \in Limits
    /\ rlKey = NoKey
    /\ rlNow = 0
    /\ rlCall = [c \in Callers |-> IdleCall]
    /\ rlHist = [window |-> 1, calls |-> 0, allowed |-> 0, evals |-> 0]

\* Allow up to the Eval: the clock is read before the call.
LimAllow(c) ==
    /\ rlCall[c].pc = "idle"
    /\ rlHist.calls < MaxAllowCalls
    /\ rlCall' = [rlCall EXCEPT ![c] = [pc |-> "eval", t |-> rlNow * 1000, res |-> NoResult]]
    /\ rlHist' = [rlHist EXCEPT !.calls = @ + 1]
    /\ UNCHANGED <<rlLimit, rlKey, rlNow, NotLimiter>>

\* Eval answers: the script ran, Allow builds its result from the reply.
LimEval(c) ==
    /\ rlCall[c].pc = "eval"
    /\ LET r == luaScript(rlKey, 1, rlLimit, WindowSeconds, rlCall[c].t)
           res == AllowResult(r.reply, rlHist.window)
       IN  /\ rlKey' = r.key
           /\ rlCall' = [rlCall EXCEPT ![c] = [pc |-> "returned", t |-> @.t, res |-> res]]
           /\ rlHist' = [rlHist EXCEPT !.evals = @ + 1,
                                        !.allowed = @ + (IF res.allow THEN 1 ELSE 0)]
    /\ UNCHANGED <<rlLimit, rlNow, NotLimiter>>

\* Eval fails; the script may or may not have run before the error.
LimEvalError(c) ==
    /\ rlCall[c].pc = "eval"
    /\ \E ran \in BOOLEAN :
          /\ rlKey' = IF ran THEN luaScript(rlKey, 1, rlLimit, WindowSeconds, rlCall[c].t).key
                              ELSE rlKey
          /\ rlHist' = [rlHist EXCEPT !.evals = @ + (IF ran THEN 1 ELSE 0)]
    /\ rlCall' = [rlCall EXCEPT ![c] = [pc |-> "returned", t |-> @.t,
                      res |-> FailOpen(rlLimit, rlCall[c].t, rlHist.window)]]
    /\ UNCHANGED <<rlLimit, rlNow, NotLimiter>>

\* The caller has used the result and may call again.
LimDone(c) ==
    /\ rlCall[c].pc = "returned"
    /\ rlCall' = [rlCall EXCEPT ![c] = IdleCall]
    /\ UNCHANGED <<rlLimit, rlKey, rlNow, rlHist, NotLimiter>>

\* A second passes; a key whose time to live runs out is removed, which
\* ends the window.
LimTick ==
    /\ rlNow < MaxNow
    /\ rlNow' = rlNow + 1
    /\ IF rlKey # NoKey /\ rlKey.ttl = 1
         THEN /\ rlKey' = NoKey
              /\ rlHist' = [rlHist EXCEPT !.window = @ + 1, !.allowed = 0, !.evals = 0]
         ELSE /\ rlKey' = IF rlKey = NoKey THEN NoKey ELSE [rlKey EXCEPT !.ttl = @ - 1]
              /\ UNCHANGED rlHist
    /\ UNCHANGED <<rlLimit, rlCall, NotLimiter>>

LimiterNext ==
    \/ \E c \in Callers : LimAllow(c)
    \/ \E c \in Callers : LimEval(c)
    \/ \E c \in Callers : LimEvalError(c)
    \/ \E c \in Callers : LimDone(c)
    \/ LimTick

(***************************************************************************)
(* The access log.  The template is "$request_uri $request_path"; an entry *)
(* is the pair of texts the replacer puts for the two variables.  The      *)
(* buffered writer holds whole entries; LogBufferSize is its size.         *)
(***************************************************************************)
NotFound == [type |-> "none", val |-> ""]

\* Request contexts at Finish: {path, query} of the request as it is sent
\* upstream, the context value request_path, and (history) the path the
\* client sent.
LogRequests ==
    { [path |-> "/v1/users", query |-> "", ctxPath |-> NotFound,
       orig |-> "/v1/users"],
      [path |-> "/v1/users", query |-> "name=john",
       ctxPath |-> [type |-> "string", val |-> "/api/v1/users"],
       orig |-> "/api/v1/users"],
      [path |-> "/hoo/users", query |-> "",
       ctxPath |-> [type |-> "bytes", val |-> "/api/v1/users"],
       orig |-> "/api/v1/users"] }

\* path, and "?" query when the query is not empty
WithQuery(path, query) == IF query # "" THEN path \o "?" \o query ELSE path

\* buildReplacer, case REQUEST_URI: the text for $request_uri; a variable
\* that gets no replacement pair stays in the line as it is.
ReplaceRequestURI(c) ==
    IF c.ctxPath # NotFound
      THEN IF c.ctxPath.type = "string"
             THEN WithQuery(c.ctxPath.val, c.query)
             ELSE "$request_uri"
      ELSE WithQuery(c.path, c.query)

\* buildReplacer, case REQUEST_PATH
ReplaceRequestPath(c) ==
    IF c.ctxPath # NotFound
      THEN IF c.ctxPath.type = "bytes" THEN c.ctxPath.val ELSE ""
      ELSE c.path

buildReplacer(c) == [uri |-> ReplaceRequestURI(c), path |-> ReplaceRequestPath(c)]

\* bufio.Writer.Flush: the buffer goes to the file; on a closed file the
\* write fails, the writer keeps the error and the data never arrives.
Flush(w) ==
    IF w.err \/ w.buf = <<>> THEN w
    ELSE IF w.open THEN [w EXCEPT !.file = @ \o w.buf, !.buf = <<>>]
    ELSE [w EXCEPT !.err = TRUE]

\* bufio.Writer.WriteString: a full buffer is flushed first.
WriteString(w, entry) ==
    IF w.err THEN w
    ELSE LET w1 == IF Len(w.buf) >= LogBufferSize THEN Flush(w) ELSE w
         IN  IF w1.err THEN w1 ELSE [w1 EXCEPT !.buf = Append(@, entry)]

LogIdle ==
    /\ lgChan = [q |-> <<>>, closed |-> FALSE]
    /\ lgWriter = [buf |-> <<>>, file |-> <<>>, open |-> TRUE, err |-> FALSE]
    /\ lgPc = [writer |-> "off", shutdown |-> "idle"]
    /\ lgHist = [n |-> 0, before |-> {}, reqs |-> <<>>, panic |-> FALSE]

\* NewLoggerTracer: file open, channel empty, writer task started
LogInit ==
    /\ lgChan = [q |-> <<>>, closed |-> FALSE]
    /\ lgWriter = [buf |-> <<>>, file |-> <<>>, open |-> TRUE, err |-> FALSE]
    /\ lgPc = [writer |-> "loop", shutdown |-> "idle"]
    /\ lgHist = [n |-> 0, before |-> {}, reqs |-> <<>>, panic |-> FALSE]

\* Finish: build the line and send it; a send on the closed channel panics.
\* The steps that the writer task and Shutdown take on the buffered writer
\* are taken one at a time here.
LogFinish(c) ==
    /\ lgPc.writer # "off"
    /\ lgHist.n < MaxFinish
    /\ ~lgHist.panic
    /\ LET e == [id |-> lgHist.n + 1, line |-> buildReplacer(c)]
       IN  IF lgChan.closed
             THEN /\ lgHist' = [lgHist EXCEPT !.panic = TRUE]
                  /\ UNCHANGED lgChan
             ELSE /\ Len(lgChan.q) < LogChanCap
                  /\ lgChan' = [lgChan EXCEPT !.q = Append(@, e)]
                  /\ lgHist' = [lgHist EXCEPT
                         !.n = @ + 1,
                         !.before = IF lgPc.shutdown = "idle" THEN @ \cup {e.id} ELSE @,
                         !.reqs = Append(@, [req |-> c, line |-> e.line])]
    /\ UNCHANGED <<lgWriter, lgPc, NotLog>>

\* writer task: case entry, ok := <-t.logChan with ok
WriterReceive ==
    /\ lgPc.writer = "loop"
    /\ lgChan.q # <<>>
    /\ lgWriter' = WriteString(lgWriter, Head(lgChan.q))
    /\ lgChan' = [lgChan EXCEPT !.q = Tail(@)]
    /\ UNCHANGED <<lgPc, lgHist, NotLog>>

\* writer task: the channel is closed and drained; Flush and return
WriterChannelClosed ==
    /\ lgPc.writer = "loop"
    /\ lgChan.q = <<>> /\ lgChan.closed
    /\ lgWriter' = Flush(lgWriter)
    /\ lgPc' = [lgPc EXCEPT !.writer = "exited"]
    /\ UNCHANGED <<lgChan, lgHist, NotLog>>

\* writer task: case <-flushTimer.C
WriterTimer ==
    /\ lgPc.writer = "loop"
    /\ lgWriter.buf # <<>>
    /\ lgWriter' = Flush(lgWriter)
    /\ UNCHANGED <<lgChan, lgPc, lgHist, NotLog>>

\* Shutdown: close(t.logChan)
ShutdownClose ==
    /\ lgPc.writer # "off"
    /\ lgPc.shutdown = "idle"
    /\ lgChan' = [lgChan EXCEPT !.closed = TRUE]
    /\ lgPc' = [lgPc EXCEPT !.shutdown = "closed"]
    /\ UNCHANGED <<lgWriter, lgHist, NotLog>>

\* Shutdown: t.writer.Flush()
ShutdownFlush ==
    /\ lgPc.shutdown = "closed"
    /\ lgWriter' = Flush(lgWriter)
    /\ lgPc' = [lgPc EXCEPT !.shutdown = "flushed"]
    /\ UNCHANGED <<lgChan, lgHist, NotLog>>

\* Shutdown: t.logFile.Sync(); t.logFile.Close()
ShutdownCloseFile ==
    /\ lgPc.shutdown = "flushed"
    /\ lgWriter' = [lgWriter EXCEPT !.open = FALSE]
    /\ lgPc' = [lgPc EXCEPT !.shutdown = "done"]
    /\ UNCHANGED <<lgChan, lgHist, NotLog>>

LogNext ==
    \/ \E c \in LogRequests : LogFinish(c)
    \/ WriterReceive
    \/ WriterChannelClosed
    \/ WriterTimer
    \/ ShutdownClose
    \/ ShutdownFlush
    \/ ShutdownCloseFile

(***************************************************************************)
(* Zero-downtime upgrade.  A listener is its address key and whether its   *)
(* socket is open; the socket a listener holds is named by that key.       *)
(* Listeners are TCP listeners (Listener is called with network tcp).      *)
(***************************************************************************)
\* The addresses the servers bind, in the order of the configuration.
ZAddrs == <<":8001", ":8002", ":8003", ":8004">>

IndexSets(n) == SUBSET (1..n)

\* WaitForUpgrade, lines 215-224: the files of the listeners whose File()
\* succeeds, in the order of z.listeners.
RECURSIVE ExtractFiles(_, _, _)
ExtractFiles(ls, ok, i) ==
    IF i > Len(ls) THEN <<>>
    ELSE (IF i \in ok THEN <<ls[i].key>> ELSE <<>>) \o ExtractFiles(ls, ok, i + 1)

\* json.Marshal(z.listeners): every listener's key
MarshalListeners(ls) == [i \in DOMAIN ls |-> ls[i].key]

Min(a, b) == IF a < b THEN a ELSE b

\* Listener in the child, lines 98-137: entry index gets descriptor
\* 3 + index.  bad is the first descriptor for which FileListener fails
\* (0: none); it fails in any case for a descriptor that is no socket.
\* After a failure the loop goes on with the same index, without end.
ChildListeners(env, files, bad) ==
    LET fails == IF bad # 0 /\ bad <= Len(env) THEN bad
                 ELSE IF Len(files) < Len(env) THEN Len(files) + 1 ELSE 0
        n == IF fails = 0 THEN Len(env) ELSE Min(fails - 1, Len(files))
    IN  [ sockets |-> [i \in 1..n |-> files[i]],
          state |-> IF fails = 0 THEN "attached" ELSE "hung" ]

ZeroIdle ==
    /\ zdListeners = <<>>
    /\ zdState = "none"
    /\ zdCh = [stopWaiting |-> 0, isShutdown |-> 0]
    /\ zdPc = [wait |-> "idle", socket |-> "none", acceptor |-> "off", close |-> "idle"]
    /\ zdChildren = <<>>
    /\ zdHist = [upgrades |-> 0, startFailed |-> 0, closes |-> 0,
                 entered |-> 0, pidWrites |-> 0, rejected |-> FALSE]

\* New
ZeroInit ==
    /\ zdListeners = <<>>
    /\ zdState = "default"
    /\ zdCh = [stopWaiting |-> 0, isShutdown |-> 0]
    /\ zdPc = [wait |-> "idle", socket |-> "none", acceptor |-> "off", close |-> "idle"]
    /\ zdChildren = <<>>
    /\ zdHist = [upgrades |-> 0, startFailed |-> 0, closes |-> 0,
                 entered |-> 0, pidWrites |-> 0, rejected |-> FALSE]

\* Listener in the parent for an address with no cached listener: the
\* next server's bind
ZListener ==
    /\ zdState # "none"
    /\ Len(zdListeners) < MaxListeners
    /\ Len(zdListeners) < Len(ZAddrs)
    /\ zdListeners' = Append(zdListeners,
                             [key |-> ZAddrs[Len(zdListeners) + 1], open |-> TRUE])
    /\ UNCHANGED <<zdState, zdCh, zdPc, zdChildren, zdHist, NotZero>>

\* WaitForUpgrade entering whatever the state is.
WaitSetStateUnchecked ==
    /\ zdPc.wait \in {"idle", "failed", "returned"}
    /\ zdState # "none"
    /\ zdState' = "waitingState"
    /\ zdPc' = [zdPc EXCEPT !.wait = "entered"]
    /\ zdHist' = [zdHist EXCEPT !.entered = @ + 1]
    /\ UNCHANGED <<zdListeners, zdCh, zdChildren, NotZero>>

\* WaitForUpgrade, lines 176-182, the state being default
WaitSetState ==
    /\ zdPc.wait \in {"idle", "failed", "returned"}
    /\ zdState = "default"
    /\ zdState' = "waitingState"
    /\ zdPc' = [zdPc EXCEPT !.wait = "entered"]
    /\ zdHist' = [zdHist EXCEPT !.entered = @ + 1]
    /\ UNCHANGED <<zdListeners, zdCh, zdChildren, NotZero>>

\* WaitForUpgrade, lines 176-180, the state not being default: the call
\* returns the error, whatever an earlier call is doing
WaitRejected ==
    /\ zdState = "waitingState"
    /\ zdHist' = [zdHist EXCEPT !.rejected = TRUE]
    /\ UNCHANGED <<zdListeners, zdState, zdCh, zdPc, zdChildren, NotZero>>

\* WaitForUpgrade, lines 184-196: the control socket opens, or does not
\* and the call returns the error
WaitOpenSocket ==
    /\ zdPc.wait = "entered"
    /\ \E ok \in BOOLEAN :
          zdPc' = IF ok THEN [zdPc EXCEPT !.wait = "waiting", !.socket = "open",
                                          !.acceptor = "accept"]
                        ELSE [zdPc EXCEPT !.wait = "failed"]
    /\ zdHist' = [zdHist EXCEPT !.pidWrites = @ + 1]
    /\ UNCHANGED <<zdListeners, zdState, zdCh, zdChildren, NotZero>>

\* An upgrade request whose failed child start ends the accept loop.
UpgradeRequestBreakOnFail(ok, started) ==
    /\ zdPc.acceptor = "accept"
    /\ zdPc.socket = "open"
    /\ zdHist.upgrades < MaxUpgrades
    /\ \A i \in ok : zdListeners[i].open
    /\ \A k \in DOMAIN zdChildren : zdChildren[k].state # "started"
    /\ IF started
         THEN /\ zdChildren' = Append(<<>>,
                    [ env |-> MarshalListeners(zdListeners),
                      files |-> ExtractFiles(zdListeners, ok, 1),
                      failedBefore |-> zdHist.startFailed,
                      state |-> "started", sockets |-> <<>> ])
              /\ zdHist' = [zdHist EXCEPT !.upgrades = @ + 1]
              /\ UNCHANGED zdPc
         ELSE /\ zdHist' = [zdHist EXCEPT !.upgrades = @ + 1, !.startFailed = @ + 1]
              /\ zdPc' = [zdPc EXCEPT !.acceptor = "exited"]
              /\ UNCHANGED zdChildren
    /\ UNCHANGED <<zdListeners, zdState, zdCh, NotZero>>

\* The accept loop, lines 204-243: one connection on the control socket.
\* ok is the set of listeners whose File() succeeds (never a closed one).
\* Only the child started last is kept, and a request is taken up once
\* that child is past its Listener call.
UpgradeRequest(ok, started) ==
    /\ zdPc.acceptor = "accept"
    /\ zdPc.socket = "open"
    /\ zdHist.upgrades < MaxUpgrades
    /\ \A i \in ok : zdListeners[i].open
    /\ \A k \in DOMAIN zdChildren : zdChildren[k].state # "started"
    /\ IF started
         THEN /\ zdChildren' = Append(<<>>,
                    [ env |-> MarshalListeners(zdListeners),
                      files |-> ExtractFiles(zdListeners, ok, 1),
                      failedBefore |-> zdHist.startFailed,
                      state |-> "started", sockets |-> <<>> ])
              /\ zdHist' = [zdHist EXCEPT !.upgrades = @ + 1]
         ELSE /\ zdHist' = [zdHist EXCEPT !.upgrades = @ + 1, !.startFailed = @ + 1]
              /\ UNCHANGED zdChildren
    /\ UNCHANGED <<zdListeners, zdState, zdCh, zdPc, NotZero>>

\* The accept loop: Accept fails with net.ErrClosed
AcceptorExit ==
    /\ zdPc.acceptor = "accept"
    /\ zdPc.socket = "closed"
    /\ zdPc' = [zdPc EXCEPT !.acceptor = "exited"]
    /\ UNCHANGED <<zdListeners, zdState, zdCh, zdChildren, zdHist, NotZero>>

\* The child's first call of Listener
ChildListener(k) ==
    /\ k \in DOMAIN zdChildren
    /\ zdChildren[k].state = "started"
    /\ \E bad \in 0..Len(zdChildren[k].files) :
          LET r == ChildListeners(zdChildren[k].env, zdChildren[k].files, bad)
          IN  zdChildren' = [zdChildren EXCEPT ![k].state = r.state,
                                               ![k].sockets = r.sockets]
    /\ UNCHANGED <<zdListeners, zdState, zdCh, zdPc, zdHist, NotZero>>

\* WaitForUpgrade, line 247 and the deferred socket.Close()
WaitStop ==
    /\ zdPc.wait = "waiting"
    /\ zdCh.stopWaiting > 0
    /\ zdCh' = [zdCh EXCEPT !.stopWaiting = @ - 1]
    /\ zdPc' = [zdPc EXCEPT !.wait = "stopping", !.socket = "closed"]
    /\ UNCHANGED <<zdListeners, zdState, zdChildren, zdHist, NotZero>>

\* WaitForUpgrade, the deferred z.isShutdownCh <- true, and the return
WaitSignalShutdown ==
    /\ zdPc.wait = "stopping"
    /\ zdCh.isShutdown < ChanCap
    /\ zdCh' = [zdCh EXCEPT !.isShutdown = @ + 1]
    /\ zdPc' = [zdPc EXCEPT !.wait = "returned"]
    /\ UNCHANGED <<zdListeners, zdState, zdChildren, zdHist, NotZero>>

\* Close, lines 69-73: every listener is closed, z.state is read
CloseListeners ==
    /\ zdState # "none"
    /\ zdPc.close = "idle"
    /\ zdHist.closes < MaxCloses
    /\ zdListeners' = [i \in DOMAIN zdListeners |-> [zdListeners[i] EXCEPT !.open = FALSE]]
    /\ zdPc' = [zdPc EXCEPT !.close = IF zdState = "waitingState" THEN "send" ELSE "returned"]
    /\ zdHist' = [zdHist EXCEPT !.closes = @ + 1]
    /\ UNCHANGED <<zdState, zdCh, zdChildren, NotZero>>

\* Close, line 74
CloseSendStop ==
    /\ zdPc.close = "send"
    /\ zdCh.stopWaiting < ChanCap
    /\ zdCh' = [zdCh EXCEPT !.stopWaiting = @ + 1]
    /\ zdPc' = [zdPc EXCEPT !.close = "receive"]
    /\ UNCHANGED <<zdListeners, zdState, zdChildren, zdHist, NotZero>>

\* Close, lines 75-78
CloseReceiveShutdown ==
    /\ zdPc.close = "receive"
    /\ zdCh.isShutdown > 0
    /\ zdCh' = [zdCh EXCEPT !.isShutdown = @ - 1]
    /\ zdPc' = [zdPc EXCEPT !.close = "returned"]
    /\ UNCHANGED <<zdListeners, zdState, zdChildren, zdHist, NotZero>>

\* Close has returned; it may be called again
CloseAgain ==
    /\ zdPc.close = "returned"
    /\ zdHist.closes < MaxCloses
    /\ zdPc' = [zdPc EXCEPT !.close = "idle"]
    /\ UNCHANGED <<zdListeners, zdState, zdCh, zdChildren, zdHist, NotZero>>

ZeroNext ==
    \/ ZListener
    \/ WaitSetState
    \/ WaitRejected
    \/ WaitOpenSocket
    \/ \E ok \in IndexSets(Len(zdListeners)), started \in BOOLEAN : UpgradeRequest(ok, started)
    \/ AcceptorExit
    \/ \E k \in DOMAIN zdChildren : ChildListener(k)
    \/ WaitStop
    \/ WaitSignalShutdown
    \/ CloseListeners
    \/ CloseSendStop
    \/ CloseReceiveShutdown
    \/ CloseAgain

\* Every step of Close and of WaitForUpgrade that can be taken is taken.
ZeroFairness ==
    /\ WF_vars(WaitOpenSocket)
    /\ WF_vars(WaitStop)
    /\ WF_vars(WaitSignalShutdown)
    /\ WF_vars(AcceptorExit)
    /\ WF_vars(CloseSendStop)
    /\ WF_vars(CloseReceiveShutdown)

(***************************************************************************)
(* Load: the server entries of the options become the gateway's servers.   *)
(***************************************************************************)
ServerIds == {"", "web", "api"}

ServerBinds == {"", ":8001"}

ServerEntries == {[ID |-> id, Bind |-> b] : id \in ServerIds, b \in ServerBinds}

NoBifrost == [err |-> "", httpServers |-> <<>>]

\* The loop of Load from entry i on.  httpServers is the set of keys of the
\* local map, built the list bifrost.httpServers; failing is the entry at
\* which NewHTTPServer returns an error (0: none).  The map is looked up
\* but nothing is ever stored in it.
RECURSIVE LoadLoop(_, _, _, _, _)
LoadLoop(entries, i, httpServers, built, failing) ==
    IF i > Len(entries) THEN [err |-> "", httpServers |-> built]
    ELSE LET entry == entries[i]
         IN  IF entry.ID = "" THEN [err |-> "id can't be empty", httpServers |-> <<>>]
             ELSE IF entry.Bind = "" THEN [err |-> "bind can't be empty", httpServers |-> <<>>]
             ELSE IF entry.ID \in httpServers THEN [err |-> "already exists", httpServers |-> <<>>]
             ELSE IF i = failing THEN [err |-> "NewHTTPServer", httpServers |-> <<>>]
             ELSE LoadLoop(entries, i + 1, httpServers, Append(built, entry.ID), failing)

LoadIdle ==
    /\ ldEntries = <<>>
    /\ ldPc = "off"
    /\ ldResult = NoBifrost

LoadInit ==
    /\ ldEntries \in SeqsUpTo(ServerEntries, MaxEntries)
    /\ ldPc = "start"
    /\ ldResult = NoBifrost

\* Load(opts)
Load ==
    /\ ldPc = "start"
    /\ \E failing \in 0..Len(ldEntries) :
          ldResult' = LoadLoop(ldEntries, 1, {}, <<>>, failing)
    /\ ldPc' = "done"
    /\ UNCHANGED <<ldEntries, NotLoad>>

LoadNext == Load

(***************************************************************************)
(* Access-log template: the directives of the template are replaced by     *)
(* the values of the request.  A template is the sequence of its words.    *)
(***************************************************************************)
Directives ==
    {"$request_method", "$upstream_method", "$status", "$upstream_status",
     "$request_protocol"}

Methods == {"GET", "POST"}

Statuses == {200, 504}

Protocol == "HTTP/1.1"

Digit == <<"0", "1", "2", "3", "4", "5", "6", "7", "8", "9">>

\* strconv.Itoa for a number that is not negative
RECURSIVE Itoa(_)
Itoa(n) ==
    IF n < 10 THEN Digit[n + 1] ELSE Itoa(n \div 10) \o Digit[(n % 10) + 1]

\* parseVariables: the variables of the template, in their order
parseVariables(template) ==
    SelectSeq(template, LAMBDA w : w \in Directives)

\* The switch of buildReplacer for one variable: the pairs (old, new) it
\* appends.  The case of the status is empty, the case of the upstream
\* status appends a pair for the status, and the case of the upstream
\* method a pair for the request method.
replacementsOf(matchVal, c) ==
    CASE matchVal = "$request_method" -> << <<"$request_method", c.method>> >>
      [] matchVal = "$upstream_method" -> << <<"$request_method", c.method>> >>
      [] matchVal = "$request_protocol" -> << <<"$request_protocol", Protocol>> >>
      [] matchVal = "$status" -> <<>>
      [] matchVal = "$upstream_status" -> << <<"$status", Itoa(c.status)>> >>
      [] OTHER -> << <<matchVal, matchVal>> >>

\* buildReplacer: the pairs of all variables, in the order of matchVars
RECURSIVE replacements(_, _)
replacements(matchVars, c) ==
    IF matchVars = <<>> THEN <<>>
    ELSE replacementsOf(Head(matchVars), c) \o replacements(Tail(matchVars), c)

\* strings.Replacer on one word: the first pair whose old string it is
ReplaceWord(pairs, w) ==
    IF \E i \in DOMAIN pairs : pairs[i][1] = w
    THEN pairs[CHOOSE i \in DOMAIN pairs :
                  /\ pairs[i][1] = w
                  /\ \A j \in DOMAIN pairs : pairs[j][1] = w => i <= j][2]
    ELSE w

\* replacer.Replace(template)
Replace(pairs, template) ==
    [i \in DOMAIN template |-> ReplaceWord(pairs, template[i])]

TemplateIdle ==
    /\ tpTemplate = <<>>
    /\ tpCtx = [status |-> 200, method |-> "GET"]
    /\ tpPc = "off"
    /\ tpLine = <<>>

TemplateInit ==
    /\ tpTemplate \in SeqsUpTo(Directives, MaxDirectives)
    /\ tpCtx \in [status : Statuses, method : Methods]
    /\ tpPc = "start"
    /\ tpLine = <<>>

\* LoggerTracer.Finish: the line that is queued for the writer
TemplateFinish ==
    /\ tpPc = "start"
    /\ tpLine' = Replace(replacements(parseVariables(tpTemplate), tpCtx), tpTemplate)
    /\ tpPc' = "done"
    /\ UNCHANGED <<tpTemplate, tpCtx, NotTemplate>>

TemplateNext == TemplateFinish

(***************************************************************************)
(* roundRobin as a function of the counter: one call on an upstream whose  *)
(* counter holds any value of the word.                                    *)
(***************************************************************************)
IndexIdle ==
    /\ ixN = 1
    /\ ixCounter = 0
    /\ ixPc = "off"
    /\ ixProxy = ""

IndexInit ==
    /\ ixN \in 1..MaxTargets
    /\ ixCounter \in 0..(UintMod - 1)
    /\ ixPc = "start"
    /\ ixProxy = ""

\* roundRobin(): with one proxy proxies[0]; otherwise index := counter.Add(1)
\* and proxies[(int(index)-1) % len(proxies)].
roundRobin ==
    /\ ixPc = "start"
    /\ IF ixN = 1
         THEN /\ ixProxy' = Proxies(ixN)[1]
              /\ UNCHANGED ixCounter
         ELSE /\ ixCounter' = UintAdd1(ixCounter)
              /\ ixProxy' = ProxyAt(ixN, roundRobinIndex(UintAdd1(ixCounter), ixN))
    /\ ixPc' = "done"
    /\ UNCHANGED <<ixN, NotIndex>>

IndexNext == roundRobin

(***************************************************************************)
(* newEngine as a function of the entry options.                           *)
(***************************************************************************)
\* The middleware options of an entry: by reference or by kind, known or not.
MwOptions ==
    {MwRef("m1"), MwRef("m2"), MwRef("missing"),
     MwKind("strip_prefix"), MwKind(""), MwKind("bogus")}

BuildIdle ==
    /\ bdOpts = [tracing |-> FALSE, mws |-> <<>>]
    /\ bdPc = "off"
    /\ bdResult = [ok |-> FALSE, engine |-> EmptyEngine(1)]

BuildInit ==
    /\ bdOpts \in [tracing : BOOLEAN, mws : SeqsUpTo(MwOptions, MaxMws)]
    /\ bdPc = "start"
    /\ bdResult = [ok |-> FALSE, engine |-> EmptyEngine(1)]

\* newEngine(bifrost, entryOpts): loadRouter, log.NewLogger or the factory
\* of a middleware may return an error of its own.
BuildEngine ==
    /\ bdPc = "start"
    /\ \E failing \in BOOLEAN :
          bdResult' = IF failing
                        THEN [ok |-> FALSE, engine |-> EmptyEngine(1)]
                        ELSE newEngine(1, bdOpts.tracing, bdOpts.mws)
    /\ bdPc' = "done"
    /\ UNCHANGED <<bdOpts, NotBuild>>

BuildNext == BuildEngine

(***************************************************************************)
(* DynamicService (src/pkg/gateway/service.go)                             *)
(***************************************************************************)
ServiceNames == {"svcA", "svcB"}

\* What the context holds under svc.name: nothing, or a string.
DynamicValues == {Unset, "", "svcA", "svcB", "nope"}

DynamicIdle ==
    /\ dyServices = {}
    /\ dyCalls = <<>>

\* newDynamicService(name, services)
DynamicInit ==
    /\ dyServices \in SUBSET ServiceNames
    /\ dyCalls = <<>>

\* ServeHTTP that hands a request it cannot place to any loaded service.
DynamicServeHTTPFallback(v) ==
    /\ Len(dyCalls) < MaxDynamicCalls
    /\ LET serviceName == GetString(v)
       IN  \E s \in dyServices \cup {Nil} :
             /\ (serviceName \in dyServices) => s = serviceName
             /\ (dyServices # {}) => s # Nil
             /\ dyCalls' = Append(dyCalls, [value |-> v, served |-> s,
                                             aborted |-> s = Nil])
    /\ UNCHANGED <<dyServices, NotDynamic>>

\* DynamicService.ServeHTTP for a request whose context holds v: abort on
\* an empty name and on a name that is not in svc.services, otherwise
\* service.ServeHTTP of the service found.
DynamicServeHTTP(v) ==
    /\ Len(dyCalls) < MaxDynamicCalls
    /\ LET serviceName == GetString(v)
       IN  dyCalls' = Append(dyCalls,
               IF Len(serviceName) = 0 \/ serviceName \notin dyServices
                 THEN [value |-> v, served |-> Nil, aborted |-> TRUE]
                 ELSE [value |-> v, served |-> serviceName, aborted |-> FALSE])
    /\ UNCHANGED <<dyServices, NotDynamic>>

DynamicNext == \E v \in DynamicValues : DynamicServeHTTP(v)

(***************************************************************************)
(* Specifications: one per subsystem.                                      *)
(***************************************************************************)

InitEngine ==
    /\ EngineInit
    /\ RRIdle /\ HashIdle /\ WeightedIdle /\ ServiceIdle /\ ProxyIdle /\ JoinIdle /\ PrefixIdle
    /\ ReplaceIdle /\ LimiterIdle /\ LogIdle /\ ZeroIdle /\ LoadIdle /\ TemplateIdle /\ IndexIdle /\ BuildIdle /\ DynamicIdle

InitRR ==
    /\ RRInit
    /\ EngineIdle /\ HashIdle /\ WeightedIdle /\ ServiceIdle /\ ProxyIdle /\ JoinIdle /\ PrefixIdle
    /\ ReplaceIdle /\ LimiterIdle /\ LogIdle /\ ZeroIdle /\ LoadIdle /\ TemplateIdle /\ IndexIdle /\ BuildIdle /\ DynamicIdle

InitHash ==
    /\ HashInit
    /\ EngineIdle /\ RRIdle /\ WeightedIdle /\ ServiceIdle /\ ProxyIdle /\ JoinIdle /\ PrefixIdle
    /\ ReplaceIdle /\ LimiterIdle /\ LogIdle /\ ZeroIdle /\ LoadIdle /\ TemplateIdle /\ IndexIdle /\ BuildIdle /\ DynamicIdle

InitWeighted ==
    /\ WeightedInit
    /\ EngineIdle /\ RRIdle /\ HashIdle /\ ServiceIdle /\ ProxyIdle /\ JoinIdle /\ PrefixIdle
    /\ ReplaceIdle /\ LimiterIdle /\ LogIdle /\ ZeroIdle /\ LoadIdle /\ TemplateIdle /\ IndexIdle /\ BuildIdle /\ DynamicIdle

InitService ==
    /\ ServiceInit
    /\ EngineIdle /\ RRIdle /\ HashIdle /\ WeightedIdle /\ ProxyIdle /\ JoinIdle /\ PrefixIdle
    /\ ReplaceIdle /\ LimiterIdle /\ LogIdle /\ ZeroIdle /\ LoadIdle /\ TemplateIdle /\ IndexIdle /\ BuildIdle /\ DynamicIdle

InitProxy ==
    /\ ProxyInit
    /\ EngineIdle /\ RRIdle /\ HashIdle /\ WeightedIdle /\ ServiceIdle /\ JoinIdle /\ PrefixIdle
    /\ ReplaceIdle /\ LimiterIdle /\ LogIdle /\ ZeroIdle /\ LoadIdle /\ TemplateIdle /\ IndexIdle /\ BuildIdle /\ DynamicIdle

InitJoin ==
    /\ JoinInit
    /\ EngineIdle /\ RRIdle /\ HashIdle /\ WeightedIdle /\ ServiceIdle /\ ProxyIdle /\ PrefixIdle
    /\ ReplaceIdle /\ LimiterIdle /\ LogIdle /\ ZeroIdle /\ LoadIdle /\ TemplateIdle /\ IndexIdle /\ BuildIdle /\ DynamicIdle

InitPrefix ==
    /\ PrefixInit
    /\ EngineIdle /\ RRIdle /\ HashIdle /\ WeightedIdle /\ ServiceIdle /\ ProxyIdle /\ JoinIdle
    /\ ReplaceIdle /\ LimiterIdle /\ LogIdle /\ ZeroIdle /\ LoadIdle /\ TemplateIdle /\ IndexIdle /\ BuildIdle /\ DynamicIdle

InitReplace ==
    /\ ReplaceInit
    /\ EngineIdle /\ RRIdle /\ HashIdle /\ WeightedIdle /\ ServiceIdle /\ ProxyIdle /\ JoinIdle
    /\ PrefixIdle /\ LimiterIdle /\ LogIdle /\ ZeroIdle /\ LoadIdle /\ TemplateIdle /\ IndexIdle /\ BuildIdle /\ DynamicIdle

InitLimiter ==
    /\ LimiterInit
    /\ EngineIdle /\ RRIdle /\ HashIdle /\ WeightedIdle /\ ServiceIdle /\ ProxyIdle /\ JoinIdle
    /\ PrefixIdle /\ ReplaceIdle /\ LogIdle /\ ZeroIdle /\ LoadIdle /\ TemplateIdle /\ IndexIdle /\ BuildIdle /\ DynamicIdle

InitLog ==
    /\ LogInit
    /\ EngineIdle /\ RRIdle /\ HashIdle /\ WeightedIdle /\ ServiceIdle /\ ProxyIdle /\ JoinIdle
    /\ PrefixIdle /\ ReplaceIdle /\ LimiterIdle /\ ZeroIdle /\ LoadIdle /\ TemplateIdle /\ IndexIdle /\ BuildIdle /\ DynamicIdle

InitZero ==
    /\ ZeroInit
    /\ EngineIdle /\ RRIdle /\ HashIdle /\ WeightedIdle /\ ServiceIdle /\ ProxyIdle /\ JoinIdle
    /\ PrefixIdle /\ ReplaceIdle /\ LimiterIdle /\ LogIdle /\ LoadIdle /\ TemplateIdle /\ IndexIdle /\ BuildIdle /\ DynamicIdle

InitLoad ==
    /\ LoadInit
    /\ EngineIdle /\ RRIdle /\ HashIdle /\ WeightedIdle /\ ServiceIdle /\ ProxyIdle /\ JoinIdle
    /\ PrefixIdle /\ ReplaceIdle /\ LimiterIdle /\ LogIdle /\ ZeroIdle /\ TemplateIdle /\ IndexIdle /\ BuildIdle /\ DynamicIdle

InitTemplate ==
    /\ TemplateInit
    /\ EngineIdle /\ RRIdle /\ HashIdle /\ WeightedIdle /\ ServiceIdle /\ ProxyIdle /\ JoinIdle
    /\ PrefixIdle /\ ReplaceIdle /\ LimiterIdle /\ LogIdle /\ ZeroIdle /\ LoadIdle /\ IndexIdle /\ BuildIdle /\ DynamicIdle

InitIndex ==
    /\ IndexInit
    /\ EngineIdle /\ RRIdle /\ HashIdle /\ WeightedIdle /\ ServiceIdle /\ ProxyIdle /\ JoinIdle
    /\ PrefixIdle /\ ReplaceIdle /\ LimiterIdle /\ LogIdle /\ ZeroIdle /\ LoadIdle /\ TemplateIdle /\ BuildIdle /\ DynamicIdle

InitBuild ==
    /\ BuildInit
    /\ EngineIdle /\ RRIdle /\ HashIdle /\ WeightedIdle /\ ServiceIdle /\ ProxyIdle /\ JoinIdle
    /\ PrefixIdle /\ ReplaceIdle /\ LimiterIdle /\ LogIdle /\ ZeroIdle /\ LoadIdle /\ TemplateIdle /\ IndexIdle /\ DynamicIdle

InitDynamic ==
    /\ DynamicInit
    /\ EngineIdle /\ RRIdle /\ HashIdle /\ WeightedIdle /\ ServiceIdle /\ ProxyIdle /\ JoinIdle
    /\ PrefixIdle /\ ReplaceIdle /\ LimiterIdle /\ LogIdle /\ ZeroIdle /\ LoadIdle /\ TemplateIdle /\ IndexIdle /\ BuildIdle

SpecEngine == InitEngine /\ [][EngineNext]_vars
SpecRR == InitRR /\ [][RRNext]_vars
SpecRRLive == SpecRR /\ RRFairness
SpecHash == InitHash /\ [][HashNext]_vars
SpecWeighted == InitWeighted /\ [][WeightedNext]_vars
SpecService == InitService /\ [][ServiceNext]_vars
SpecServiceLive == SpecService /\ ServiceFairness
SpecProxy == InitProxy /\ [][ProxyNext]_vars
SpecJoin == InitJoin /\ [][JoinNext]_vars
SpecPrefix == InitPrefix /\ [][PrefixNext]_vars
SpecReplace == InitReplace /\ [][ReplaceNext]_vars
SpecLimiter == InitLimiter /\ [][LimiterNext]_vars
SpecLog == InitLog /\ [][LogNext]_vars
SpecZero == InitZero /\ [][ZeroNext]_vars
SpecLoad == InitLoad /\ [][LoadNext]_vars
SpecTemplate == InitTemplate /\ [][TemplateNext]_vars
SpecIndex == InitIndex /\ [][IndexNext]_vars
SpecBuild == InitBuild /\ [][BuildNext]_vars
SpecDynamic == InitDynamic /\ [][DynamicNext]_vars
SpecZeroLive == SpecZero /\ ZeroFairness

(***************************************************************************)
(* Claims about the engine and its swap.                                   *)
(***************************************************************************)

IsPrefix(s, t) == Len(s) <= Len(t) /\ \A i \in DOMAIN s : s[i] = t[i]

\* C1: for every request, the handlers that ran are, in order and without
\* gap or repetition, the first handlers the engine got from Engine.Use;
\* while the chain runs the index only advances; and once a handler has
\* aborted the chain, no further handler runs for that request.
C1_HandlersInOrderAndAbortStops ==
    /\ [](\A r \in Reqs :
            req[r].pc \in {"running", "done"} =>
              IsPrefix(req[r].ran, engines[req[r].engine].handlers))
    /\ [][\A r \in Reqs :
            /\ (req[r].pc = "running" /\ req'[r].pc = "running")
                 => /\ req'[r].index >= req[r].index
                    /\ req'[r].ran # req[r].ran => req'[r].index > req[r].index
            /\ req[r].aborted => req'[r].ran = req[r].ran]_vars

\* A request whose second handler aborted the chain of three: the third
\* handler never ran.
C1_Witness ==
    \E r \in Reqs :
        /\ req[r].pc = "done"
        /\ req[r].aborted
        /\ Len(req[r].ran) = 2
        /\ Len(req[r].handlers) = 3

\* C2: every request runs handlers of one engine only: what it has run is
\* a prefix of the handler list of one single engine, old or new, whatever
\* reloads were published meanwhile.
C2_NoMixOfHandlerLists ==
    \A r \in Reqs :
        \E e \in DOMAIN engines : IsPrefix(req[r].ran, engines[e].middlewares)

\* A request in the middle of its chain (it has run a handler and has more
\* to run) while the published engine is no longer the one it entered on.
C2_Witness ==
    \E r \in Reqs :
        /\ req[r].pc = "running"
        /\ req[r].engine # current
        /\ Len(req[r].ran) >= 1
        /\ req[r].index < Len(req[r].handlers)

\* C3: a request is served by the engine that was the published one when it
\* entered: it walks that engine's handler list, and unless one of its own
\* handlers aborts it runs that whole list, also when a newer engine was
\* published while it was in flight.
C3_NewRequestsNewEngineOldFinishOnOld ==
    \A r \in Reqs :
        /\ req[r].pc # "idle" => req[r].engine = req[r].epoch
        /\ req[r].pc \in {"running", "done"} =>
              /\ req[r].handlers = engines[req[r].engine].middlewares
              /\ IsPrefix(req[r].ran, engines[req[r].engine].middlewares)
        /\ (req[r].pc = "done" /\ ~req[r].aborted) =>
              req[r].ran = engines[req[r].engine].middlewares

\* Two requests that overlapped: the one that entered before the
\* publication finished the old engine's whole list, the one that entered
\* after it ran the new engine's.
C3_Witness ==
    \E r1, r2 \in Reqs :
        /\ req[r1].pc = "done" /\ req[r1].engine = 1 /\ ~req[r1].aborted
        /\ Len(req[r1].ran) = Len(engines[1].middlewares)
        /\ current = 2
        /\ req[r2].pc = "done" /\ req[r2].engine = 2 /\ ~req[r2].aborted
        /\ req[r2].ran = engines[2].middlewares

(***************************************************************************)
(* Claims about round-robin selection.                                     *)
(***************************************************************************)

\* The targets of a window of n consecutive selections starting at i.
Window(i, n) == {rrSel[j] : j \in i..(i + n - 1)}

\* C4: with N >= 2 targets and calls made one after the other, every
\* window of N consecutive selections holds each target exactly once, also
\* when the counter reset falls inside the window.
C4_EveryWindowCoversEachTarget ==
    (rrN >= 2 /\ ~rrOverlap) =>
        \A i \in 1..(Len(rrSel) - rrN + 1) : Window(i, rrN) = Range(Proxies(rrN))

\* C5: on a fresh upstream, with no reset and calls made one after the
\* other, the k-th call returns the target at list position (k-1) mod N;
\* with a single target every call returns it.
C5_KthCallReturnsKthTarget ==
    /\ (~rrOverlap /\ rrTimer # "fired") =>
          \A k \in DOMAIN rrSel : rrSel[k] = Proxies(rrN)[((k - 1) % rrN) + 1]
    /\ rrN = 1 => \A k \in DOMAIN rrSel : rrSel[k] = Proxies(1)[1]

\* Three targets, six sequential calls without a reset: A,B,C,A,B,C.
C5_Witness ==
    /\ rrN = 3 /\ ~rrOverlap /\ rrTimer # "fired"
    /\ rrSel = <<"A", "B", "C", "A", "B", "C">>

\* C6: two calls in progress at the same time hold different counter
\* values (no increment is lost), so they select the same index only if
\* their values are congruent modulo N.
C6_ConcurrentCallsGetDistinctValues ==
    \A c, d \in RRCallers :
        (c # d /\ rrPc[c] = "added" /\ rrPc[d] = "added") =>
            /\ rrIdx[c] # rrIdx[d]
            /\ (roundRobinIndex(rrIdx[c], rrN) = roundRobinIndex(rrIdx[d], rrN)
                   => (rrIdx[c] - rrIdx[d]) % rrN = 0)

(***************************************************************************)
(* Claims about the hashing strategy.                                      *)
(***************************************************************************)

\* FNV-1a-32 of a key, from the offset basis.
Fnv1a32(key) == FnvWrite(FnvOffset32, key, 1)

\* C7: with N >= 2 targets every call hasing(k) returns the target at
\* index FNV-1a-32(k) mod N, whatever keys were hashed before or meanwhile.
C7_HashingDeterministicPerKey ==
    hsN >= 2 =>
        \A i \in DOMAIN hsRes :
            hsRes[i][2] = Proxies(hsN)[HashMod(Fnv1a32(hsRes[i][1]), hsN) + 1]

(***************************************************************************)
(* Claims about weighted selection.                                        *)
(***************************************************************************)

\* The first list position whose cumulative weight exceeds the draw.
FirstCrossing(ws, draw) ==
    CHOOSE i \in DOMAIN ws :
        /\ draw < SumSeq(ws, i)
        /\ \A j \in 1..(i - 1) : draw >= SumSeq(ws, j)

\* C8: when every weight is positive, totalWeight is the sum of the
\* weights; a call that drew r returns the first target whose cumulative
\* weight exceeds r, never nil; and of the totalWeight possible draws
\* exactly w_i select target i.
C8_WeightedFollowsCumulativeWeights ==
    (wtBuilt /\ \A i \in DOMAIN wtWeights : wtWeights[i] > 0) =>
        LET n == Len(wtWeights) IN
        /\ wtTotal = SumSeq(wtWeights, n)
        /\ \A k \in DOMAIN wtLast :
              /\ wtLast[k].proxy \in Range(Proxies(n))
              /\ wtLast[k].drew =>
                    wtLast[k].proxy = Proxies(n)[FirstCrossing(wtWeights, wtLast[k].draw)]
        /\ \A i \in 1..n :
              Cardinality({r \in 0..(wtTotal - 1) :
                             weighted(wtWeights, r) = Proxies(n)[i]}) = wtWeights[i]

\* Weights 1, 2, 3: the draw 3 is the first that reaches the third target.
C8_Witness ==
    /\ wtWeights = <<1, 2, 3>>
    /\ wtLast = <<[drew |-> TRUE, draw |-> 3, proxy |-> "C"]>>

(***************************************************************************)
(* Claims about Service.ServeHTTP.                                         *)
(***************************************************************************)

\* C9: on a dynamic service, a request whose context variable is missing,
\* empty, or names no upstream is never given to a backend, and, when its
\* carrier was not cancelled, ServeHTTP returns with response status 503.
C9_DynamicLookupFailureIs503 ==
    \A r \in SvcReqs :
        (/\ svc.dynamicUpstream # ""
         /\ sreq[r].mPc # "idle"
         /\ GetString(sreq[r].var) \notin UpstreamIds) =>
            /\ sreq[r].fwd = Nil
            /\ (sreq[r].mPc = "done" /\ ~sreq[r].cancelled) =>
                  sreq[r].retStatus = 503

\* C10: when the carrier was cancelled before the sub-task's signal was
\* received, ServeHTTP returns with status 499 and CLIENT_CANCELED_AT set.
\* (The carrier is only ever cancelled while the handler is at the select,
\* so a cancelled request that returned was cancelled before the signal.)
C10_CancelBeforeSignalIs499 ==
    \A r \in SvcReqs :
        (sreq[r].mPc = "done" /\ sreq[r].cancelled) =>
            /\ sreq[r].retStatus = 499
            /\ sreq[r].canceledAt

\* C11: when the selected proxy panics in the sub-task, the panic is
\* recovered, the chain is aborted, ServeHTTP returns, and (the carrier not
\* being cancelled) the response status is 500.
C11_ProxyPanicIs500 ==
    \A r \in SvcReqs :
        (sreq[r].outcome = "panic" /\ ~sreq[r].cancelled) =>
            /\ sreq[r].tPc = "end" => (sreq[r].aborted /\ ~sreq[r].panicking)
            /\ sreq[r].mPc = "done" => sreq[r].retStatus = 500

HopPresent(h) == {n \in Range(hopHeaders) : h[n] # Absent}

\* C14 as stated: on the outbound request and on the response no
\* hop-by-hop header is present, except Trailer when transferTrailer is set.
C14_NoHopHeaderEitherWay ==
    LET allowed == IF pxIn.transferTrailer THEN {"Trailer"} ELSE {}
    IN  /\ pxPc # "start" => HopPresent(pxOut) \subseteq allowed
        /\ pxResp.answered => HopPresent(pxResp.headers) \subseteq allowed

\* C14 amended: on the outbound request the only hop-by-hop headers are
\* Trailer when transferTrailer is set, Te: trailers when transferTrailer is
\* set and the inbound Te contains "trailers", and Connection: Upgrade with
\* Upgrade: <type> when the request carries an upgrade type; on the
\* response of a request the backend answered through client.Do the only
\* one is Trailer when transferTrailer is set.
C14_HopHeadersStrippedButReadded ==
    LET tt == pxIn.transferTrailer
        up == upgradeReqType(pxIn.headers)
        allowed == (IF tt THEN {"Trailer"} ELSE {})
                   \cup (IF tt /\ checkTeHeader(pxIn.headers) THEN {"Te"} ELSE {})
                   \cup (IF up # "" THEN {"Connection", "Upgrade"} ELSE {})
    IN  /\ pxPc # "start" =>
              /\ HopPresent(pxOut) \subseteq allowed
              /\ pxOut["Te"] \in {Absent, "trailers"}
              /\ up # "" => (pxOut["Connection"] = "Upgrade" /\ pxOut["Upgrade"] = up)
        /\ pxResp.answered =>
              HopPresent(pxResp.headers) \subseteq (IF tt THEN {"Trailer"} ELSE {})

\* Every hop-by-hop header came in both ways, with transferTrailer set and
\* a Connection header listing X-Custom: only Te: trailers and Trailer went
\* out, only Trailer came back.
C14_Witness ==
    /\ pxPc = "done" /\ pxResp.answered /\ pxIn.transferTrailer
    /\ pxIn.headers["Connection"] = "keep-alive, X-Custom"
    /\ pxIn.headers["X-Custom"] = "1"
    /\ pxIn.headers["Te"] = "gzip, trailers"
    /\ PlainHop \subseteq HopPresent(pxIn.headers)
    /\ HopPresent(pxOut) = {"Te", "Trailer"} /\ pxOut["X-Custom"] = Absent
    /\ HopPresent(pxResp.raw) = Range(hopHeaders) \ {"Connection"}
    /\ HopPresent(pxResp.headers) = {"Trailer"}

\* C15: when the remote address parses to the peer IP X, the outbound
\* X-Forwarded-For is X if the inbound request had none, is the inbound
\* value followed by ", " and X if that value was not empty, and is never
\* the empty string.
C15_ForwardedForAppendsPeer ==
    (pxPc # "start" /\ pxIn.remote.ok) =>
        LET v == pxIn.headers["X-Forwarded-For"]
            x == pxIn.remote.ip
        IN  /\ v = Absent => pxOut["X-Forwarded-For"] = x
            /\ (v # Absent /\ v # "") => pxOut["X-Forwarded-For"] = v \o ", " \o x
            /\ pxOut["X-Forwarded-For"] # ""

(***************************************************************************)
(* Claims about JoinURLPath.                                               *)
(***************************************************************************)

\* A URI up to the canonical slash form of its path.
CanonURI(uri) == ParseURI(<<>>, uri)

\* C16 as stated: for every target, with or without a base path or query,
\* joining an already joined request again with the same target gives the
\* same URI, up to canonical slash form.
C16_JoinIdempotent ==
    \A i \in 2..Len(juUris) : CanonURI(juUris[i]) = CanonURI(juUris[i - 1])

\* The target is absolute and has neither a base path nor a query.
BareTarget(target) ==
    /\ HasPrefix(target, SchemeHttp)
    /\ IndexFrom(target, "?", 1) = 0
    /\ ParseURI(<<>>, target).path = <<"/">>

\* C16 amended: for an absolute target with neither base path nor query,
\* joining an already joined request again with the same target gives the
\* same URI, up to canonical slash form.
C16_JoinIdempotentOnBareTarget ==
    BareTarget(juTarget) =>
        \A i \in 2..Len(juUris) : CanonURI(juUris[i]) = CanonURI(juUris[i - 1])

\* Target http://h/, request /d/?q: both joins give http://h/d/?q.
C16_Witness ==
    /\ juTarget = HostH \o <<"/">>
    /\ Len(juUris) >= 2
    /\ juUris[1] = HostH \o <<"/", "d", "/", "?", "q">>
    /\ juUris[2] = juUris[1]

(***************************************************************************)
(* Claims about the path middlewares.                                      *)
(***************************************************************************)

\* C17: strip_prefix with the single prefix p followed by add_prefix with
\* the same p leaves a path that starts with p as it was: once both
\* handlers have run, the request path is the path the request came with.
C17_StripThenAddIsIdentity ==
    (/\ Len(pfPrefixes) = 1 /\ pfAdd = pfPrefixes[1]
     /\ HasPrefix(pfOrig, pfAdd) /\ pfPc = "next") =>
        pfPath = pfOrig

C19_AllowedIffCounterWithinLimit ==
    /\ \A c \in Callers :
          (rlCall[c].pc = "returned" /\ ~rlCall[c].res.err) =>
             LET res == rlCall[c].res
             IN  /\ res.allow <=> res.current <= rlLimit
                 /\ res.remaining = IF rlLimit - res.current > 0
                                      THEN rlLimit - res.current ELSE 0
                 /\ res.limit = rlLimit
                 /\ res.window = rlHist.window => res.current <= rlHist.evals
    /\ rlHist.allowed <= rlLimit
    /\ rlKey # NoKey => rlKey.value = rlHist.evals

\* Two callers are between call and answer at once; one has been allowed
\* with the last unit of the quota, the other denied in the same window.
C19_Witness ==
    /\ rlLimit = 1
    /\ rlHist.allowed = 1
    /\ \E c, d \in Callers :
          /\ rlCall[c].pc = "returned" /\ rlCall[d].pc = "returned"
          /\ rlCall[c].t = rlCall[d].t
          /\ ~rlCall[c].res.err /\ rlCall[c].res.allow /\ rlCall[c].res.current = 1
          /\ ~rlCall[d].res.err /\ ~rlCall[d].res.allow /\ rlCall[d].res.current = 2
          /\ rlCall[d].res.window = rlCall[c].res.window

\* C20: when the evaluation returns an error, Allow fails open: the result
\* is allowed, with limit and remaining both the configured limit, however
\* many calls were made before.
C20_FailOpenOnRedisError ==
    \A c \in Callers :
        (rlCall[c].pc = "returned" /\ rlCall[c].res.err) =>
            /\ rlCall[c].res.allow
            /\ rlCall[c].res.limit = rlLimit
            /\ rlCall[c].res.remaining = rlLimit

\* The quota of the window is used up and a call has been denied; the next
\* call fails in Redis and is allowed with the full quota.
C20_Witness ==
    /\ rlLimit = 1
    /\ rlKey # NoKey /\ rlKey.value >= 2
    /\ \E c, d \in Callers :
          /\ rlCall[c].pc = "returned" /\ rlCall[c].res.err
          /\ rlCall[c].res.allow /\ rlCall[c].res.remaining = 1
          /\ rlCall[d].pc = "returned" /\ ~rlCall[d].res.err /\ ~rlCall[d].res.allow

\* C21: for a request whose path a middleware has rewritten, with the
\* original client path stored in the context under request_path, the log
\* line has the rewritten path (plus query) for $request_uri and the
\* original client path for $request_path.
C21_LogUriRewrittenPathOriginal ==
    \A i \in DOMAIN lgHist.reqs :
        LET c == lgHist.reqs[i].req
            line == lgHist.reqs[i].line
        IN  c.ctxPath # NotFound =>
              /\ line.uri = WithQuery(c.path, c.query)
              /\ line.path = c.orig

\* C22: when Shutdown has closed the log file, every entry that Finish
\* enqueued before Shutdown was called is in the file.
C22_ShutdownLosesNothing ==
    lgPc.shutdown = "done" =>
        \A id \in lgHist.before :
            \E k \in DOMAIN lgWriter.file : lgWriter.file[k].id = id

\* C23: in every upgrade the descriptors handed to the child correspond
\* one to one and in order with the serialized listener list: descriptor
\* 3+i is the socket of entry i of LISTENERS, and the child attaches to
\* each key the socket the parent had bound for it, also when extracting
\* the file of some listener fails.
C23_DescriptorsMatchListeners ==
    \A k \in DOMAIN zdChildren :
        LET ch == zdChildren[k]
        IN  /\ Len(ch.files) = Len(ch.env)
            /\ \A i \in DOMAIN ch.env : ch.files[i] = ch.env[i]
            /\ ch.state # "hung"
            /\ ch.state = "attached" => ch.sockets = ch.env

\* C24: an upgrade attempt never closes or removes a listener of the
\* parent, whether the child starts or not; a listener is closed only by
\* Close.  After a failed child start the accept loop still runs on the
\* open control socket.
C24_UpgradeKeepsListeners ==
    [][ /\ \A i \in DOMAIN zdListeners :
             /\ i \in DOMAIN zdListeners'
             /\ zdListeners'[i].key = zdListeners[i].key
             /\ (zdListeners[i].open /\ ~zdListeners'[i].open) =>
                   (zdPc.close = "idle" /\ zdPc'.close # "idle")
        /\ zdHist'.upgrades > zdHist.upgrades =>
             /\ zdListeners' = zdListeners
             /\ zdPc'.acceptor = "accept" /\ zdPc'.socket = "open" ]_vars

\* A child start failed, a later upgrade request started a child, and the
\* parent's two listeners are still open.
C24_Witness ==
    /\ Len(zdListeners) = 2
    /\ \A i \in DOMAIN zdListeners : zdListeners[i].open
    /\ \E k \in DOMAIN zdChildren :
          /\ zdChildren[k].failedBefore = 1
          /\ zdChildren[k].state = "attached"
          /\ zdChildren[k].sockets = MarshalListeners(zdListeners)

\* C30: Close always returns, in every reachable state: when
\* WaitForUpgrade was never called, when it is waiting, when it returned
\* an error because the control socket could not be opened, and when
\* Close is called a second time.
C30_CloseAlwaysReturns ==
    (zdPc.close \in {"send", "receive"}) ~> (zdPc.close = "returned")

\* C25: Load rejects a configuration in which two server entries share an
\* id (error "already exists", no Bifrost) and one with an entry of empty
\* id or empty bind; a Bifrost is returned only if the server ids are all
\* non-empty and pairwise distinct.
C25_LoadRejectsDuplicateIds ==
    ldPc = "done" =>
        LET dup == \E i, j \in DOMAIN ldEntries : i # j /\ ldEntries[i].ID = ldEntries[j].ID
            empty == \E i \in DOMAIN ldEntries : ldEntries[i].ID = "" \/ ldEntries[i].Bind = ""
        IN  /\ (dup \/ empty) => ldResult.err # ""
            /\ (dup /\ ~empty /\ ldResult.err # "NewHTTPServer") => ldResult.err = "already exists"
            /\ ldResult.err = "" => (~dup /\ ~empty)

\* C26: newUpstream builds no weighted upstream with a target weight that
\* is zero or negative; every weighted upstream that exists has a
\* totalWeight above 0 that is the sum of its positive target weights.
C26_WeightedNeedsPositiveWeights ==
    /\ (\E i \in DOMAIN wtWeights : wtWeights[i] <= 0) => ~wtBuilt
    /\ wtBuilt => /\ wtTotal > 0
                  /\ \A i \in DOMAIN wtWeights : wtWeights[i] > 0
                  /\ wtTotal = SumSeq(wtWeights, Len(wtWeights))

\* C27: after the carrier was cancelled and ServeHTTP has returned, the
\* sub-task still in flight is not cancelled: it finishes the proxy call
\* and then terminates; it does not stay blocked forever.
C27_SubTaskTerminatesAfterCancel ==
    \A r \in SvcReqs :
        (sreq[r].mPc = "done" /\ sreq[r].canceledAt) ~> (sreq[r].tPc = "end")

\* C28: on a dynamic service with concurrent requests, each request is
\* balanced over the upstream its own context variable names: the upstream
\* recorded as its upstream id, the strategy applied and the proxy it is
\* given to are never those of an upstream another request resolved.
C28_OwnUpstreamPerRequest ==
    \A r \in SvcReqs :
        (svc.dynamicUpstream # "" /\ sreq[r].var \in UpstreamIds) =>
            /\ sreq[r].upstreamVar # "" => sreq[r].upstreamVar = sreq[r].var
            /\ sreq[r].tPc = "pick" => sreq[r].strategy = upStrategy[sreq[r].var]
            /\ sreq[r].fwd # Nil => sreq[r].fwd \in UpstreamProxies(sreq[r].var)

\* C29: once ServeHTTP has returned because of cancellation, with status
\* 499, the sub-task still running writes nothing more into the request
\* context: not the status, the upstream status, the upstream duration,
\* the timeout flag or the abort mark.
C29_NoContextWriteAfterCancelReturn ==
    [][ \A r \in SvcReqs :
          (sreq[r].mPc = "done" /\ sreq[r].canceledAt /\ sreq[r].retStatus = 499) =>
              /\ sreq'[r].status = sreq[r].status
              /\ sreq'[r].upstreamStatus = sreq[r].upstreamStatus
              /\ sreq'[r].duration = sreq[r].duration
              /\ sreq'[r].targetTimeout = sreq[r].targetTimeout
              /\ sreq'[r].upstreamVar = sreq[r].upstreamVar
              /\ sreq'[r].aborted = sreq[r].aborted ]_vars

\* C31: in the child, the loop of Listener that rebuilds the inherited
\* listeners terminates for every LISTENERS list and every outcome of
\* net.FileListener, also when building a listener from a descriptor fails.
C31_ChildLoopTerminates ==
    \A k \in DOMAIN zdChildren : zdChildren[k].state # "hung"

\* C39: WaitForUpgrade enters the waiting state at most once per
\* instance: a call made when the state is not default, also one made
\* while an earlier call is under way, returns an error without writing
\* the PID file or opening the control socket, and the state never goes
\* back to default.
C39_WaitingEnteredAtMostOnce ==
    [][ /\ zdState = "waitingState" => zdState' = "waitingState"
        /\ zdHist'.entered <= 1
        /\ zdHist'.pidWrites <= zdHist'.entered
        /\ zdHist'.entered > zdHist.entered => zdState = "default"
        /\ (zdPc'.socket = "open" /\ zdPc.socket # "open") => zdPc.wait = "entered"
        /\ (zdHist'.rejected /\ ~zdHist.rejected) =>
              /\ zdState = "waitingState"
              /\ zdPc' = zdPc
              /\ zdHist'.pidWrites = zdHist.pidWrites ]_vars

\* A second call was turned down while the first one is waiting on the
\* control socket.
C39_Witness ==
    /\ zdHist.rejected
    /\ zdHist.entered = 1 /\ zdHist.pidWrites = 1
    /\ zdPc.wait = "waiting" /\ zdPc.socket = "open"
    /\ zdState = "waitingState"

\* C32: for a request that was given to a proxy whose ServeHTTP returned,
\* AddFailedCount(1) is called on that proxy, once, when the response
\* status at the health check (after the translation of a timeout to 504)
\* is 500 or more, and is not called otherwise; it is never called for a
\* request that was given no proxy; upstream_status is recorded exactly
\* when the timeout flag is not set.
C32_HealthFeedbackOnServerErrors ==
    /\ \A r \in SvcReqs :
          /\ (sreq[r].tPc \in {"send", "recover", "end"}
                 /\ sreq[r].outcome \in {"response", "error", "timeout"}) =>
                /\ sreq[r].healthStatus >= 500 => sreq[r].failedOn = sreq[r].fwd
                /\ sreq[r].healthStatus < 500 => sreq[r].failedOn = Nil
                /\ sreq[r].upstreamStatus # 0 <=> ~sreq[r].targetTimeout
                /\ ~sreq[r].cancelled =>
                      sreq[r].healthStatus =
                          IF sreq[r].outcome = "timeout" THEN 504 ELSE sreq[r].upstreamStatus
          /\ sreq[r].outcome \in {"none", "no_proxy", "panic"} =>
                (sreq[r].failedOn = Nil /\ sreq[r].healthStatus = 0)
          /\ sreq[r].fwd = Nil => sreq[r].failedOn = Nil
    /\ \A p \in AllProxies :
          failed[p] = Cardinality({r \in SvcReqs : sreq[r].failedOn = p})

\* One request timed out and its proxy was charged for the 504 without an
\* upstream_status; the other was answered 200 and its proxy was not.
C32_Witness ==
    \E r1, r2 \in SvcReqs :
        /\ sreq[r1].outcome = "timeout" /\ sreq[r1].tPc = "end"
        /\ sreq[r1].healthStatus = 504 /\ sreq[r1].failedOn = sreq[r1].fwd
        /\ sreq[r1].upstreamStatus = 0 /\ failed[sreq[r1].fwd] = 1
        /\ sreq[r2].outcome = "response" /\ sreq[r2].tPc = "end"
        /\ sreq[r2].healthStatus = 200 /\ sreq[r2].failedOn = Nil
        /\ sreq[r2].upstreamStatus = 200

\* C33: every recognized directive that occurs in the template is replaced
\* by its own value in the emitted line and never emitted literally: the
\* status by the status code of the response whether or not the upstream
\* status occurs in the template, and the upstream status and the upstream
\* method are replaced too.
C33_EachDirectiveReplaced ==
    tpPc = "done" =>
        \A i \in DOMAIN tpTemplate :
            /\ tpLine[i] \notin Directives
            /\ tpTemplate[i] = "$status" => tpLine[i] = Itoa(tpCtx.status)
            /\ tpTemplate[i] = "$upstream_status" => tpLine[i] = Itoa(tpCtx.status)
            /\ tpTemplate[i] \in {"$request_method", "$upstream_method"} =>
                  tpLine[i] = tpCtx.method
            /\ tpTemplate[i] = "$request_protocol" => tpLine[i] = Protocol

\* C34: while the upstream is live the reset of the counter recurs: after
\* every reset another one follows, for every upstream that selects by
\* round-robin, the one with an empty strategy included.
C34_ResetRecurs == []<><<RRReset>>_vars

\* C35: roundRobin never indexes outside the target list: for every value
\* of the counter, the upper half of the word and the wrap to 0 included,
\* the index (int(counter)-1) mod N is in [0, N) and a target is returned.
C35_IndexWithinTargets ==
    ixPc = "done" =>
        /\ ixProxy \in Range(Proxies(ixN))
        /\ ixN >= 2 => roundRobinIndex(ixCounter, ixN) \in 0..(ixN - 1)

\* C36: when the Upgrade token of the inbound request is not printable
\* ASCII, the proxy calls the error handler and does not send the request
\* to the backend; the request is sent only when it has no Upgrade token
\* or a printable one.
C36_UnprintableUpgradeNotSent ==
    LET up == upgradeReqType(pxIn.headers)
    IN  /\ (~IsASCIIPrint(up) /\ pxPc # "start") =>
              /\ pxResp.status = 502
              /\ pxPc = "done"
              /\ ~pxResp.answered
        /\ pxPc \in {"roundTrip", "do"} => (up = "" \/ IsASCIIPrint(up))

\* C37: the engine newEngine builds has its handlers in this order: the
\* tracing middleware (only with tracing enabled), the init middleware, the
\* entry's middlewares in their configured order, the router last; when an
\* entry middleware refers to an unknown id or kind, or has an empty kind,
\* newEngine returns an error and no engine.
C37_BuiltInHandlerOrder ==
    bdPc = "done" =>
        LET mws == bdOpts.mws
            known(m) == IF Len(m.Use) > 0 THEN m.Use \in LoadedMiddlewares
                        ELSE Len(m.Type) > 0 /\ m.Type \in MiddlewareFactoryKinds
            hs == bdResult.engine.handlers
            names == [i \in DOMAIN hs |-> hs[i].name]
            entry == [i \in DOMAIN mws |->
                         IF Len(mws[i].Use) > 0 THEN mws[i].Use ELSE mws[i].Type]
        IN  /\ (\E i \in DOMAIN mws : ~known(mws[i])) => ~bdResult.ok
            /\ ~bdResult.ok => hs = <<>>
            /\ bdResult.ok =>
                  names = (IF bdOpts.tracing THEN <<"tracing">> ELSE <<>>)
                            \o <<"init">> \o entry \o <<"router">>

\* Tracing enabled and two entry middlewares, one by kind and one by id:
\* the engine runs tracing, init, strip_prefix, m2, router.
C37_Witness ==
    /\ bdPc = "done" /\ bdResult.ok /\ bdOpts.tracing
    /\ bdOpts.mws = <<MwKind("strip_prefix"), MwRef("m2")>>
    /\ Len(bdResult.engine.handlers) = 5
    /\ bdResult.engine.handlers[5].name = "router"
    /\ bdResult.engine.handlers[2].name = "init"

\* C38: DynamicService.ServeHTTP forwards the request to exactly the
\* service whose id is the value of its context variable; when the variable
\* is empty or names no loaded service it aborts the chain and calls no
\* service.
C38_DynamicServiceForwardsByName ==
    \A i \in DOMAIN dyCalls :
        LET call == dyCalls[i]
        IN  IF call.value \in dyServices
              THEN call.served = call.value /\ ~call.aborted
              ELSE call.served = Nil /\ call.aborted

\* With svcA loaded only: a request for svcA was served by svcA and a
\* request for svcB was aborted.
C38_Witness ==
    /\ dyServices = {"svcA"}
    /\ dyCalls = <<[value |-> "svcA", served |-> "svcA", aborted |-> FALSE],
                   [value |-> "svcB", served |-> Nil, aborted |-> TRUE]>>

\* C40: Finish never panics, however it is interleaved with Shutdown: a
\* request that finishes while or after the access log is shut down does
\* not send on the closed queue.
C40_FinishNeverPanics == ~lgHist.panic

====
